---- MODULE Spec2Model ----
(***************************************************************************)
(* GitHub AutoPilot: the continuous improvement loop (main.py), one        *)
(* improvement cycle with its pre-flight step, and the waiters and helpers *)
(* of pr_manager.py it calls.  Remote calls answer "ok", "http" (a         *)
(* requests.HTTPError from raise_for_status) or "net" (a                   *)
(* requests.ConnectionError / requests.Timeout).  Time is counted in units *)
(* of 10 seconds.                                                          *)
(***************************************************************************)
EXTENDS Integers, Sequences, FiniteSets, TLC

VARIABLES
    pc,                    \* position of the single thread of control
    cycle_index,           \* main.py:275
    consecutive_failures,  \* main.py:276
    successful_cycles,     \* main.py:277
    shutdown_requested,    \* main.py:40  _shutdown_requested
    stop_reason,           \* which break left the while loop ("none" while running)
    delay_left,            \* remaining 1 s increments of the inter-cycle delay
    pr_numbers,            \* metrics.py:20  metrics.pr_numbers, as the set of its elements
    touched,               \* the pull requests this process has merged or closed so far
    metrics_followed,      \* pr_numbers and touched are kept up to date (in SpecSummary);
                           \* elsewhere the bookkeeping of the summary is left out
    MAX_CYCLES,            \* config.py:29
    AUTO_MERGE_PRS,        \* config.py:24
    PR_READY_TIMEOUT_SECONDS,  \* config.py:20, the timeout of wait_for_pr_ready
    PR_CHECK_TIMEOUT_SECONDS,  \* config.py:21, the timeout of wait_for_pr_checks
    pr_state,              \* remote: "state" of each pull request ("closed" once merged or closed)
    pr_base_ok,            \* remote: base.ref of the pull request equals BASE_BRANCH
    job_queued,            \* remote: an agent job is queued and has not opened its PR yet
    pre_unresolved,        \* pre-flight: the listed pull requests a wait timed out on or left open
    ctx,                   \* "pre" inside wait_for_existing_prs_to_complete, "own" after the trigger
    queue,                 \* pre-flight: the part of copilot_prs not yet iterated
    listed,                \* pre-flight: the pull requests get_open_copilot_prs returned
    pr_number,             \* the pull request being handled (0 none, -1 the pending sentinel)
    elapsed,               \* time.time() - start_time of the wait in progress
    title,                 \* pr_manager.py:290, between the two reads of a readiness poll
    last_poll,             \* what the poll just completed read and decided (for one state)
    exc,                   \* the exception a cycle raised ("none" if it returned)
    log,                   \* the calls and remote mutations of the pass over pr_number, in order
    guard,                 \* repeated runs of ensure_pr_base_branch: what each pull request got
    gw_call                \* a gateway function called by itself: its argument and outcome

vars == << pc, cycle_index, consecutive_failures, successful_cycles, shutdown_requested,
           stop_reason, delay_left, MAX_CYCLES, AUTO_MERGE_PRS, PR_READY_TIMEOUT_SECONDS,
           PR_CHECK_TIMEOUT_SECONDS, pr_state, pr_base_ok,
           job_queued, pre_unresolved, ctx, queue, listed, pr_number, elapsed, title,
           last_poll, exc, log, guard, pr_numbers, touched, metrics_followed, gw_call >>

loopVars   == << cycle_index, consecutive_failures, successful_cycles, stop_reason, delay_left >>
metricsVars == << pr_numbers, touched >>
configVars == << MAX_CYCLES, AUTO_MERGE_PRS, PR_READY_TIMEOUT_SECONDS, PR_CHECK_TIMEOUT_SECONDS,
                 metrics_followed >>
remoteVars == << pr_state, pr_base_ok, job_queued >>

----------------------------------------------------------------------------
(* Bounds of the model *)

MaxPR == 2                          \* pull request numbers 1..MaxPR
MaxCycleIndex == 2                  \* cycles are started while cycle_index <= MaxCycleIndex
MAX_CONSECUTIVE_FAILURES == 2       \* config.py:30, default 3
DELAY_BETWEEN_CYCLES_SECONDS == 1   \* config.py:28, default 10
PR_READY_TIMEOUT == 4               \* config.py:20, default 1800 s = 180 units
PR_CHECK_TIMEOUT == 4               \* config.py:21, default 600 s = 60 units
MaxWaitCreation == 2                \* main.py:179, 300 s = 30 units

(* Program constants, in units of 10 s *)
SleepPoll == 3                      \* time.sleep(30)
SleepBackoff == 1                   \* time.sleep(10)

PRs == 1..MaxPR
MaxCyclesSettings == {0, 1, 2}       \* the values of MAX_CYCLES tried (0 = unlimited)
InitiallyOpen == {{}, {1}}          \* the pull requests open when the process starts
Resp == {"ok", "http", "net"}

----------------------------------------------------------------------------
(* Pure helpers *)

Ev(op, p, r) == [op |-> op, pr |-> p, res |-> r]

Min(a, b) == IF a < b THEN a ELSE b

InLog2(evs, op, p, r) == \E i \in 1..Len(evs) : evs[i] = Ev(op, p, r)

RECURSIVE DescSeq(_)
DescSeq(S) ==
    IF S = {} THEN << >>
    ELSE LET m == CHOOSE x \in S : \A y \in S : y <= x
         IN  << m >> \o DescSeq(S \ {m})

(* get_open_copilot_prs: the open pull requests, sort=created direction=desc.
   Every pull request of the model is authored by the agent. *)
OpenCopilotPRs(st) == DescSeq({p \in PRs : st[p] = "open"})

(* Titles as character sequences *)
TitleWIP   == << "[", "W", "I", "P", "]", "x" >>
TitleWip   == << "[", "W", "i", "p", "]", "x" >>
Titlewip   == << "x", "[", "w", "i", "p", "]" >>
TitleDone  == << "F", "i", "x" >>
TitleBare  == << "W", "I", "P" >>
Titles == {TitleWIP, TitleWip, Titlewip, TitleDone, TitleBare}

LowerChar(c) ==
    CASE c = "W" -> "w" [] c = "I" -> "i" [] c = "P" -> "p" [] c = "F" -> "f"
      [] c = "J" -> "j" [] c = "Q" -> "q" [] OTHER -> c

Lower(s) == [i \in 1..Len(s) |-> LowerChar(s[i])]

Contains(sub, s) ==
    \E i \in 1..(Len(s) - Len(sub) + 1) : SubSeq(s, i, i + Len(sub) - 1) = sub

(* pr_manager.py:291  has_wip = "[WIP]" in title or "[wip]" in title.lower() *)
HasWipExactCase(ttl) == Contains(<< "[", "W", "I", "P", "]" >>, ttl)
HasWip(ttl) ==
    \/ Contains(<< "[", "W", "I", "P", "]" >>, ttl)
    \/ Contains(<< "[", "w", "i", "p", "]" >>, Lower(ttl))

(* pr_manager.py:316  if not has_wip and has_reviewers *)
ReadyDecisionIgnoresReviewers(wip, nreviewers) == ~wip
ReadyDecision(wip, nreviewers) == ~wip /\ nreviewers > 0

(* requests.Response.__bool__ is Response.ok: false for every status >= 400 *)
ResponseTruthy(status) == status < 400

(* pr_manager.py:304, 395  if e.response and e.response.status_code >= 500 *)
RetriesHTTPError(status) == ResponseTruthy(status) /\ status >= 500

HttpErrorStatus == {404, 500}

(* pr_manager.py:425-432: the outcome of one validation poll; the per-check counts
   of get_pr_check_status are printed and otherwise unused *)
MergeableStates == {"clean", "dirty", "unstable", "blocked", "unknown", "draft", "null"}
CheckStatuses == {"error", "no_checks", "some_failed", "all_passed"}
CheckDecisionCountsOverride(mergeable_state, check_status) ==
    CASE check_status = "some_failed" -> "failed"
      [] mergeable_state = "clean" -> "passed"
      [] mergeable_state \in {"dirty", "unstable"} -> "failed"
      [] OTHER -> "continue"
CheckDecisionBlockedFails(mergeable_state, check_status) ==
    CASE mergeable_state = "clean" -> "passed"
      [] mergeable_state \in {"dirty", "unstable", "blocked"} -> "failed"
      [] OTHER -> "continue"
CheckDecision(mergeable_state, check_status) ==
    CASE mergeable_state = "clean" -> "passed"
      [] mergeable_state \in {"dirty", "unstable"} -> "failed"
      [] OTHER -> "continue"

(* pr_manager.py:84-112 close_pull_request(repository, pr_number, comment): r1 answers
   the comment POST, r2 the PATCH state=closed.  Only requests.HTTPError is caught. *)
ClosePullRequestGoesOnAfterComment(p, why, r1, r2) ==
    LET call == << Ev("close_call", p, why) >>
    IN  IF r1 = "net" THEN [raised |-> TRUE, ret |-> FALSE, closed |-> FALSE, ev |-> call]
        ELSE IF r2 = "net" THEN
            [raised |-> TRUE, ret |-> FALSE, closed |-> FALSE,
             ev |-> call \o << Ev("comment", p, why) >>]
        ELSE IF r2 = "http" THEN
            [raised |-> FALSE, ret |-> FALSE, closed |-> FALSE,
             ev |-> call \o << Ev("comment", p, why) >>]
        ELSE [raised |-> FALSE, ret |-> TRUE, closed |-> TRUE,
              ev |-> call \o << Ev("comment", p, why), Ev("close", p, why) >>]
ClosePullRequest(p, why, r1, r2) ==
    LET call == << Ev("close_call", p, why) >>
    IN  IF r1 = "net" THEN [raised |-> TRUE, ret |-> FALSE, closed |-> FALSE, ev |-> call]
        ELSE IF r1 = "http" THEN [raised |-> FALSE, ret |-> FALSE, closed |-> FALSE, ev |-> call]
        ELSE IF r2 = "net" THEN
            [raised |-> TRUE, ret |-> FALSE, closed |-> FALSE,
             ev |-> call \o << Ev("comment", p, why) >>]
        ELSE IF r2 = "http" THEN
            [raised |-> FALSE, ret |-> FALSE, closed |-> FALSE,
             ev |-> call \o << Ev("comment", p, why) >>]
        ELSE [raised |-> FALSE, ret |-> TRUE, closed |-> TRUE,
              ev |-> call \o << Ev("comment", p, why), Ev("close", p, why) >>]

(* pr_manager.py:23-49 get_issue_number_from_pr followed by issue_manager.py:87-115
   close_issue: r0 answers the GET of the pull request, found is the heuristic's
   result, r1 the comment POST, r2 the PATCH state=closed of the issue. *)
CloseLinkedIssue(p, why, r0, found, r1, r2) ==
    IF r0 # "ok" THEN
        [raised |-> TRUE, kind |-> r0, closed |-> FALSE, ev |-> << Ev("issue_lookup", p, "error") >>]
    ELSE IF ~found THEN
        [raised |-> FALSE, kind |-> "ok", closed |-> FALSE, ev |-> << Ev("issue_lookup", p, "none") >>]
    ELSE IF r1 = "net" THEN
        [raised |-> TRUE, kind |-> "net", closed |-> FALSE, ev |-> << Ev("issue_lookup", p, "found") >>]
    ELSE IF r1 = "http" THEN
        [raised |-> FALSE, kind |-> "ok", closed |-> FALSE, ev |-> << Ev("issue_lookup", p, "found") >>]
    ELSE IF r2 = "net" THEN
        [raised |-> TRUE, kind |-> "net", closed |-> FALSE,
         ev |-> << Ev("issue_lookup", p, "found"), Ev("issue_comment", p, why) >>]
    ELSE IF r2 = "http" THEN
        [raised |-> FALSE, kind |-> "ok", closed |-> FALSE,
         ev |-> << Ev("issue_lookup", p, "found"), Ev("issue_comment", p, why) >>]
    ELSE [raised |-> FALSE, kind |-> "ok", closed |-> TRUE,
          ev |-> << Ev("issue_lookup", p, "found"), Ev("issue_comment", p, why),
                    Ev("issue_close", p, why) >>]

NoPoll == [kind |-> "none", t |-> << >>, n |-> 0, m |-> "null", cs |-> "error", status |-> 0]

(* main.py:294-306: the three stop checks at the head of the while loop *)
StopCheckFailuresFirst(shutdown, max_cycles, index, failures) ==
    IF shutdown THEN "shutdown"
    ELSE IF failures >= MAX_CONSECUTIVE_FAILURES THEN "failures"
    ELSE IF max_cycles > 0 /\ index > max_cycles THEN "max_cycles"
    ELSE "none"
StopCheck(shutdown, max_cycles, index, failures) ==
    IF shutdown THEN "shutdown"
    ELSE IF max_cycles > 0 /\ index > max_cycles THEN "max_cycles"
    ELSE IF failures >= MAX_CONSECUTIVE_FAILURES THEN "failures"
    ELSE "none"

(* main.py:311, 315: consecutive_failures after a cycle *)
FailuresAfterCountsTwice(raised, failures) == IF raised THEN failures + 2 ELSE 0
FailuresAfterNoReset(raised, failures) == IF raised THEN failures + 1 ELSE failures
FailuresAfter(raised, failures) == IF raised THEN failures + 1 ELSE 0

(* main.py:314  except Exception: every exception the cycle raises is a subclass *)
ExceptionClasses == {"RuntimeError", "HTTPError", "ConnectionError", "TimeoutExpired"}
CatchesRuntimeErrorOnly(e) == e = "RuntimeError"
Catches(e) == e \in ExceptionClasses

(* main.py:322  the delay is slept unless shutting down or the last cycle is done *)
DelayWantedIgnoresShutdown(shutdown, max_cycles, index) ==
    (max_cycles = 0 \/ index <= max_cycles) /\ DELAY_BETWEEN_CYCLES_SECONDS > 0
DelayWanted(shutdown, max_cycles, index) ==
    ~shutdown /\ (max_cycles = 0 \/ index <= max_cycles) /\ DELAY_BETWEEN_CYCLES_SECONDS > 0

ExcOf(r) == IF r = "net" THEN "ConnectionError" ELSE "HTTPError"

ClosePROutcomes(p, why) == {ClosePullRequest(p, why, r1, r2) : r1 \in Resp, r2 \in Resp}

IssueOutcomes(p, why) ==
    {CloseLinkedIssue(p, why, r0[1], r0[2], r1, r2) :
        r0 \in Resp \X BOOLEAN, r1 \in Resp, r2 \in Resp}

NoEffect == [raised |-> FALSE, e |-> "none", ret |-> TRUE, ev |-> << >>,
             updated |-> FALSE, closed |-> FALSE, issue_closed |-> FALSE, merged |-> FALSE]

(* pr_manager.py:115-168 ensure_pr_base_branch: r0 answers the GET of the pull request,
   r1 the PATCH of the base, cl is close_pull_request's outcome and iss the outcome of
   get_issue_number_from_pr / close_issue.  The try of line 141 catches an HTTPError
   of the issue lookup too. *)
EnsurePrBaseBranchIgnoresBase(p, base_ok, r0, r1, cl, iss) ==
    IF r0 # "ok" THEN [NoEffect EXCEPT !.raised = TRUE, !.e = ExcOf(r0), !.ret = FALSE]
    ELSE IF r1 = "net" THEN
        [NoEffect EXCEPT !.raised = TRUE, !.e = "ConnectionError", !.ret = FALSE,
                         !.ev = << Ev("base_update", p, "error") >>]
    ELSE IF r1 = "http" THEN
        [NoEffect EXCEPT !.ret = FALSE, !.ev = << Ev("base_update", p, "failed") >>]
    ELSE LET upd == [NoEffect EXCEPT !.ret = FALSE, !.updated = TRUE, !.closed = cl.closed,
                                     !.ev = << Ev("base_update", p, "ok") >> \o cl.ev]
         IN  IF cl.raised THEN [upd EXCEPT !.raised = TRUE, !.e = "ConnectionError"]
             ELSE IF iss.raised /\ iss.kind = "net"
                  THEN [upd EXCEPT !.raised = TRUE, !.e = "ConnectionError", !.ev = @ \o iss.ev]
             ELSE [upd EXCEPT !.ev = @ \o iss.ev, !.issue_closed = iss.closed]
EnsurePrBaseBranchKeepsUpdated(p, base_ok, r0, r1, cl, iss) ==
    IF r0 # "ok" THEN [NoEffect EXCEPT !.raised = TRUE, !.e = ExcOf(r0), !.ret = FALSE]
    ELSE IF base_ok THEN [NoEffect EXCEPT !.ev = << Ev("base", p, "correct") >>]
    ELSE IF r1 = "net" THEN
        [NoEffect EXCEPT !.raised = TRUE, !.e = "ConnectionError", !.ret = FALSE,
                         !.ev = << Ev("base_update", p, "error") >>]
    ELSE IF r1 = "http" THEN
        [NoEffect EXCEPT !.ret = FALSE, !.ev = << Ev("base_update", p, "failed") >>]
    ELSE [NoEffect EXCEPT !.updated = TRUE, !.ev = << Ev("base_update", p, "ok") >>]
EnsurePrBaseBranch(p, base_ok, r0, r1, cl, iss) ==
    IF r0 # "ok" THEN [NoEffect EXCEPT !.raised = TRUE, !.e = ExcOf(r0), !.ret = FALSE]
    ELSE IF base_ok THEN [NoEffect EXCEPT !.ev = << Ev("base", p, "correct") >>]
    ELSE IF r1 = "net" THEN
        [NoEffect EXCEPT !.raised = TRUE, !.e = "ConnectionError", !.ret = FALSE,
                         !.ev = << Ev("base_update", p, "error") >>]
    ELSE IF r1 = "http" THEN
        [NoEffect EXCEPT !.ret = FALSE, !.ev = << Ev("base_update", p, "failed") >>]
    ELSE LET upd == [NoEffect EXCEPT !.ret = FALSE, !.updated = TRUE, !.closed = cl.closed,
                                     !.ev = << Ev("base_update", p, "ok") >> \o cl.ev]
         IN  IF cl.raised THEN [upd EXCEPT !.raised = TRUE, !.e = "ConnectionError"]
             ELSE IF iss.raised /\ iss.kind = "net"
                  THEN [upd EXCEPT !.raised = TRUE, !.e = "ConnectionError", !.ev = @ \o iss.ev]
             ELSE [upd EXCEPT !.ev = @ \o iss.ev, !.issue_closed = iss.closed]

EnsureOutcomes(p, base_ok) ==
    {EnsurePrBaseBranch(p, base_ok, r0, r1, cl, iss) :
        r0 \in Resp, r1 \in Resp, cl \in ClosePROutcomes(p, "wrong_base"),
        iss \in IssueOutcomes(p, "wrong_base")}

(* pr_manager.py:227-265 merge_pull_request: r0 answers the GET of the pull request,
   mergeable is its "mergeable" field, r1 answers the PUT .../merge *)
Mergeable == {"true", "false", "null"}
MergePullRequestRetriesPut(p, r0, mergeable, r1) ==
    LET called == [NoEffect EXCEPT !.ret = FALSE, !.ev = << Ev("merge_call", p, "call") >>]
    IN  IF r0 # "ok" THEN [called EXCEPT !.raised = TRUE, !.e = ExcOf(r0)]
        ELSE IF mergeable = "false" THEN [called EXCEPT !.ev = @ \o << Ev("merge_skip", p, "unmergeable") >>]
        ELSE IF r1 = "net" THEN
            [called EXCEPT !.raised = TRUE, !.e = "ConnectionError",
                           !.ev = @ \o << Ev("merge_put", p, "error") >>]
        ELSE IF r1 = "http" THEN
            [called EXCEPT !.ev = @ \o << Ev("merge_put", p, "refused"),
                                          Ev("merge_put", p, "refused") >>]
        ELSE [called EXCEPT !.ret = TRUE, !.merged = TRUE,
                            !.ev = @ \o << Ev("merge_put", p, "merged") >>]
MergePullRequestPutsWhenUnmergeable(p, r0, mergeable, r1) ==
    LET called == [NoEffect EXCEPT !.ret = FALSE, !.ev = << Ev("merge_call", p, "call") >>]
    IN  IF r0 # "ok" THEN [called EXCEPT !.raised = TRUE, !.e = ExcOf(r0)]
        ELSE IF mergeable = "false" THEN
            [called EXCEPT !.ret = TRUE, !.merged = TRUE,
                           !.ev = @ \o << Ev("merge_skip", p, "unmergeable"),
                                          Ev("merge_put", p, "merged") >>]
        ELSE IF r1 = "net" THEN
            [called EXCEPT !.raised = TRUE, !.e = "ConnectionError",
                           !.ev = @ \o << Ev("merge_put", p, "error") >>]
        ELSE IF r1 = "http" THEN [called EXCEPT !.ev = @ \o << Ev("merge_put", p, "refused") >>]
        ELSE [called EXCEPT !.ret = TRUE, !.merged = TRUE,
                            !.ev = @ \o << Ev("merge_put", p, "merged") >>]
MergePullRequest(p, r0, mergeable, r1) ==
    LET called == [NoEffect EXCEPT !.ret = FALSE, !.ev = << Ev("merge_call", p, "call") >>]
    IN  IF r0 # "ok" THEN [called EXCEPT !.raised = TRUE, !.e = ExcOf(r0)]
        ELSE IF mergeable = "false" THEN [called EXCEPT !.ev = @ \o << Ev("merge_skip", p, "unmergeable") >>]
        ELSE IF r1 = "net" THEN
            [called EXCEPT !.raised = TRUE, !.e = "ConnectionError",
                           !.ev = @ \o << Ev("merge_put", p, "error") >>]
        ELSE IF r1 = "http" THEN [called EXCEPT !.ev = @ \o << Ev("merge_put", p, "refused") >>]
        ELSE [called EXCEPT !.ret = TRUE, !.merged = TRUE,
                            !.ev = @ \o << Ev("merge_put", p, "merged") >>]

MergeOutcomes(p) ==
    {MergePullRequest(p, r0, mergeable, r1) : r0 \in Resp, mergeable \in Mergeable, r1 \in Resp}

(* pr_manager.py:458-468: the listing request of get_open_copilot_prs; one retry
   after a ConnectionError / Timeout, an HTTPError propagates at once *)
ListingOutcome(r1, r2) ==
    IF r1 = "ok" THEN "ok"
    ELSE IF r1 = "http" THEN "HTTPError"
    ELSE IF r2 = "ok" THEN "ok"
    ELSE IF r2 = "http" THEN "HTTPError"
    ELSE "ConnectionError"

LowestAbsent(st) == CHOOSE n \in PRs : st[n] = "absent" /\ \A m \in PRs : st[m] = "absent" => n <= m

(* github_api.py:83-88 split_owner_repo, on strings as character sequences:
   "/" not in repo raises ValueError, else repo.split("/", 1) *)
HasSlash(repo) == \E i \in 1..Len(repo) : repo[i] = "/"
FirstSlash(repo) ==
    CHOOSE i \in 1..Len(repo) : repo[i] = "/" /\ \A j \in 1..(i - 1) : repo[j] # "/"
LastSlash(repo) ==
    CHOOSE i \in 1..Len(repo) : repo[i] = "/" /\ \A j \in (i + 1)..Len(repo) : repo[j] # "/"
SplitAt(repo, i) ==
    [raised |-> "none", owner |-> SubSeq(repo, 1, i - 1), name |-> SubSeq(repo, i + 1, Len(repo))]
SplitOwnerRepoAtLastSlash(repo) ==
    IF ~HasSlash(repo) THEN [raised |-> "ValueError", owner |-> << >>, name |-> << >>]
    ELSE SplitAt(repo, LastSlash(repo))
SplitOwnerRepo(repo) ==
    IF ~HasSlash(repo) THEN [raised |-> "ValueError", owner |-> << >>, name |-> << >>]
    ELSE SplitAt(repo, FirstSlash(repo))

(* pr_manager.py:472-478: the filter of get_open_copilot_prs.  A branch name is the
   sequence of its parts, "copilot/" being the two parts "copilot", "/" *)
StartsWith(ref, prefix) == Len(ref) >= Len(prefix) /\ SubSeq(ref, 1, Len(prefix)) = prefix
IsCopilotPrBoth(pr) ==
    pr.login = "copilot-swe-agent" /\ StartsWith(pr.ref, << "copilot", "/" >>)
IsCopilotPr(pr) ==
    pr.login = "copilot-swe-agent" \/ StartsWith(pr.ref, << "copilot", "/" >>)

(* pr_manager.py:458-480 get_open_copilot_prs when the listing request is answered
   with this status and body: raise_for_status, then the filter in the body's order *)
GetOpenCopilotPrs(status, all_prs) ==
    IF status >= 400 THEN [raised |-> "HTTPError", msg |-> "none", prs |-> << >>]
    ELSE [raised |-> "none", msg |-> "none", prs |-> SelectSeq(all_prs, IsCopilotPr)]

(* github_api.py:91-148 validate_repository_access: answered is false when the
   request raised a requests.RequestException instead of returning a response *)
ValidateRepositoryAccess(answered, status) ==
    IF ~answered THEN [raised |-> "RuntimeError", msg |-> "Failed to validate repository access"]
    ELSE IF status = 404 THEN [raised |-> "RuntimeError", msg |-> "not found or not accessible"]
    ELSE IF status = 401 THEN [raised |-> "RuntimeError", msg |-> "Authentication failed"]
    ELSE IF status = 403 THEN [raised |-> "RuntimeError", msg |-> "Access forbidden"]
    ELSE IF status >= 400
         THEN [raised |-> "RuntimeError", msg |-> "Failed to validate repository access"]
    ELSE [raised |-> "none", msg |-> "none"]

(* the decimal digits; int() of a run of them *)
Digits == {"0", "1", "2", "3", "4", "5", "6", "7", "8", "9"}
DigitVal(c) ==
    CASE c = "0" -> 0 [] c = "1" -> 1 [] c = "2" -> 2 [] c = "3" -> 3 [] c = "4" -> 4
      [] c = "5" -> 5 [] c = "6" -> 6 [] c = "7" -> 7 [] c = "8" -> 8 [] c = "9" -> 9

RECURSIVE IntOfRun(_, _, _)
IntOfRun(s, j, acc) ==
    IF j > Len(s) \/ s[j] \notin Digits THEN acc
    ELSE IntOfRun(s, j + 1, acc * 10 + DigitVal(s[j]))

RECURSIVE ConcatAll(_)
ConcatAll(ws) == IF ws = << >> THEN << >> ELSE Head(ws) \o ConcatAll(Tail(ws))

(* re.search(prefix + r'(\d+)', s): the leftmost place where the prefix is followed
   by a digit, and int() of the longest run of digits there *)
MatchesAt(prefix, s, i) ==
    /\ i + Len(prefix) <= Len(s)
    /\ SubSeq(s, i, i + Len(prefix) - 1) = prefix
    /\ s[i + Len(prefix)] \in Digits
ReSearch(prefix, s) ==
    LET at == {i \in 1..Len(s) : MatchesAt(prefix, s, i)}
    IN  IF at = {} THEN [found |-> FALSE, n |-> 0]
        ELSE LET i == CHOOSE k \in at : \A l \in at : k <= l
             IN  [found |-> TRUE, n |-> IntOfRun(s, i + Len(prefix), 0)]

(* the results of trigger_copilot_via_gh_cli: None, an int, or an exception *)
TriggerNone      == [raised |-> "none", is_none |-> TRUE, n |-> 0]
TriggerInt(n)    == [raised |-> "none", is_none |-> FALSE, n |-> n]
TriggerRaised(e) == [raised |-> e, is_none |-> FALSE, n |-> 0]

(* copilot_trigger.py:41-156 trigger_copilot_via_gh_cli: found is the result of
   find_gh_executable, auth what `gh auth status` did (run outside any try), agent
   what `gh agent-task create` did (run inside the try), output its stdout *)
TriggerCopilotViaGhCli(found, auth, agent, output) ==
    LET low  == Lower(output)
        pull == ReSearch(<< "p", "u", "l", "l", "/" >>, output)
        hash == ReSearch(<< "#" >>, output)
    IN  IF ~found THEN TriggerNone
        ELSE IF auth = "timeout" THEN TriggerRaised("TimeoutExpired")
        ELSE IF auth # "ok" THEN TriggerNone
        ELSE IF agent # "zero" THEN TriggerNone
        ELSE IF Contains(<< "j", "o", "b" >>, low)
                /\ Contains(<< "q", "u", "e", "u", "e", "d" >>, low) THEN TriggerInt(0 - 1)
        ELSE IF pull.found THEN TriggerInt(pull.n)
        ELSE IF hash.found THEN TriggerInt(hash.n)
        ELSE TriggerNone
(* no gateway function has been called by itself *)
NoCall == [fn |-> "none", arg |-> << >>, out |-> << >>]

(* nothing recorded about runs of ensure_pr_base_branch *)
NoGuardRuns ==
    [runs |-> 0,
     by |-> [p \in PRs |-> [runs |-> 0, comments |-> 0, closes |-> 0, falses |-> 0,
                            updated |-> "no"]]]

----------------------------------------------------------------------------
(* Initial state: main.py:275-277, config.py, and a repository that may already
   hold open agent pull requests *)

Init ==
    /\ pc = "loop_head"
    /\ cycle_index = 1
    /\ consecutive_failures = 0
    /\ successful_cycles = 0
    /\ shutdown_requested = FALSE
    /\ stop_reason = "none"
    /\ delay_left = 0
    /\ pr_numbers = {} /\ touched = {} /\ metrics_followed = FALSE
    /\ MAX_CYCLES \in MaxCyclesSettings
    /\ AUTO_MERGE_PRS \in BOOLEAN
    /\ PR_READY_TIMEOUT_SECONDS = PR_READY_TIMEOUT
    /\ PR_CHECK_TIMEOUT_SECONDS = PR_CHECK_TIMEOUT
    /\ \E S \in InitiallyOpen :
          pr_state = [p \in PRs |-> IF p \in S THEN "open" ELSE "absent"]
    /\ pr_base_ok \in [PRs -> BOOLEAN]
    /\ \A p \in PRs : pr_state[p] = "absent" => pr_base_ok[p]
    /\ job_queued = FALSE
    /\ pre_unresolved = {}
    /\ ctx = "none"
    /\ queue = << >>
    /\ listed = {}
    /\ pr_number = 0
    /\ elapsed = 0
    /\ title = << >>
    /\ last_poll = NoPoll
    /\ exc = "none"
    /\ log = << >>
    /\ guard = NoGuardRuns
    /\ gw_call = NoCall

----------------------------------------------------------------------------
(* Loop controller: main.py:261-346 *)

(* main.py:292-310: the stop checks, then the start of a cycle *)
LoopHead ==
    /\ pc = "loop_head"
    /\ LET r == StopCheck(shutdown_requested, MAX_CYCLES, cycle_index, consecutive_failures)
       IN  IF r # "none"
           THEN /\ pc' = "stopped"
                /\ stop_reason' = r
                /\ UNCHANGED ctx
           ELSE /\ cycle_index <= MaxCycleIndex
                /\ pc' = "pre_list"
                /\ ctx' = "pre"
                /\ UNCHANGED stop_reason
    /\ UNCHANGED << cycle_index, consecutive_failures, successful_cycles, delay_left,
                    shutdown_requested, queue, listed, pr_number, elapsed, title, last_poll,
                    log, exc, pre_unresolved >>
    /\ UNCHANGED configVars
    /\ UNCHANGED << guard, gw_call >>
    /\ UNCHANGED metricsVars
    /\ UNCHANGED remoteVars

(* main.py:311-312, 319-323: the cycle returned without an exception *)
CycleReturned ==
    /\ pc = "returned"
    /\ consecutive_failures' = FailuresAfter(FALSE, consecutive_failures)
    /\ successful_cycles' = successful_cycles + 1
    /\ cycle_index' = cycle_index + 1
    /\ IF DelayWanted(shutdown_requested, MAX_CYCLES, cycle_index + 1)
       THEN pc' = "delay" /\ delay_left' = DELAY_BETWEEN_CYCLES_SECONDS
       ELSE pc' = "loop_head" /\ delay_left' = 0
    /\ ctx' = "none" /\ queue' = << >> /\ listed' = {} /\ pr_number' = 0
    /\ log' = << >> /\ exc' = "none" /\ pre_unresolved' = {}
    /\ last_poll' = NoPoll
    /\ UNCHANGED << stop_reason, shutdown_requested, elapsed, title >>
    /\ UNCHANGED configVars
    /\ UNCHANGED << guard, gw_call >>
    /\ UNCHANGED metricsVars
    /\ UNCHANGED remoteVars

(* main.py:314-323: the cycle raised *)
CycleRaised ==
    /\ pc = "raised"
    /\ IF Catches(exc)
       THEN /\ consecutive_failures' = FailuresAfter(TRUE, consecutive_failures)
            /\ cycle_index' = cycle_index + 1
            /\ IF DelayWanted(shutdown_requested, MAX_CYCLES, cycle_index + 1)
               THEN pc' = "delay" /\ delay_left' = DELAY_BETWEEN_CYCLES_SECONDS
               ELSE pc' = "loop_head" /\ delay_left' = 0
       ELSE /\ pc' = "crashed"
            /\ UNCHANGED << consecutive_failures, cycle_index, delay_left >>
    /\ ctx' = "none" /\ queue' = << >> /\ listed' = {} /\ pr_number' = 0
    /\ log' = << >> /\ exc' = "none" /\ pre_unresolved' = {}
    /\ last_poll' = NoPoll
    /\ UNCHANGED << successful_cycles, stop_reason, shutdown_requested, elapsed, title >>
    /\ UNCHANGED configVars
    /\ UNCHANGED << guard, gw_call >>
    /\ UNCHANGED metricsVars
    /\ UNCHANGED remoteVars

(* main.py:326-328: the for loop over the increments is exhausted, or breaks *)
DelayOverIgnoresShutdown(left, shutdown) == left = 0
DelayOver(left, shutdown) == left = 0 \/ shutdown

(* main.py:326-329: one pass of the delay loop *)
Delay ==
    /\ pc = "delay"
    /\ IF DelayOver(delay_left, shutdown_requested)
       THEN pc' = "loop_head" /\ delay_left' = 0
       ELSE pc' = "delay" /\ delay_left' = delay_left - 1
    /\ UNCHANGED << cycle_index, consecutive_failures, successful_cycles, stop_reason,
                    shutdown_requested, ctx, queue, listed, pr_number, elapsed, title,
                    last_poll, exc, log, pre_unresolved >>
    /\ UNCHANGED configVars
    /\ UNCHANGED << guard, gw_call >>
    /\ UNCHANGED metricsVars
    /\ UNCHANGED remoteVars

(* main.py:43-47: SIGINT / SIGTERM *)
signal_handler ==
    /\ pc \notin {"stopped", "crashed"}
    /\ ~shutdown_requested
    /\ shutdown_requested' = TRUE
    /\ UNCHANGED << pc, ctx, queue, listed, pr_number, elapsed, title, last_poll, exc, log,
                    pre_unresolved >>
    /\ UNCHANGED loopVars
    /\ UNCHANGED configVars
    /\ UNCHANGED << guard, gw_call >>
    /\ UNCHANGED metricsVars
    /\ UNCHANGED remoteVars

----------------------------------------------------------------------------
(* One improvement cycle: main.py:140-258, with wait_for_existing_prs_to_complete,
   main.py:55-137 *)

StepL(newpc, newexc, newlog, newqueue, newpr, newelapsed) ==
    /\ pc' = newpc
    /\ exc' = newexc
    /\ log' = newlog
    /\ queue' = newqueue
    /\ pr_number' = newpr
    /\ elapsed' = newelapsed

Step(newpc, newexc, evs, newqueue, newpr, newelapsed) ==
    StepL(newpc, newexc, log \o evs, newqueue, newpr, newelapsed)

Raise(e, evs)  == Step("raised", e, evs, queue, pr_number, 0)
Return(evs)    == Step("returned", "none", evs, queue, pr_number, 0)
Goto(l, evs)   == Step(l, exc, evs, queue, pr_number, 0)
Sleep(l, d, limit) == Step(l, exc, << >>, queue, pr_number, Min(elapsed + d, limit))

(* main.py:108, 130: the pass of the for loop over this pull request is over *)
NextExisting(evs) == Goto("pre_next", evs)

(* a False from a callee: pre-flight returns False and the cycle raises
   (main.py:156-160); after the trigger the cycle returns (main.py:214-223) *)
GiveUpRaises(evs) == Raise("RuntimeError", evs)
GiveUp(evs) ==
    IF ctx = "pre" THEN Raise("RuntimeError", evs) ELSE Return(evs)

(* pr_manager.py:282, 383  while (time.time() - start_time) < timeout: the loop test
   fails and the waiter returns False *)
BudgetSpentWhenPositive(waited, timeout) == timeout > 0 /\ waited >= timeout
BudgetSpent(waited, timeout) == waited >= timeout

(* a poll of a waiter that failed: "net" for no answer, "http" with the status of
   the error answer *)
PollFailed(kind, status) == [NoPoll EXCEPT !.kind = kind, !.status = status]

(* the listed pull requests a wait timed out on, or auto-merge being off left open *)
Unresolved(now) == IF now /\ ctx = "pre" THEN pre_unresolved \cup {pr_number} ELSE pre_unresolved

waitFrameClearsShutdown ==
             /\ UNCHANGED loopVars
             /\ UNCHANGED configVars
             /\ UNCHANGED << guard, gw_call >>
             /\ shutdown_requested' = FALSE
waitFrame == /\ UNCHANGED loopVars
             /\ UNCHANGED configVars
             /\ UNCHANGED << guard, gw_call >>
             /\ UNCHANGED shutdown_requested

cycleFrame == /\ waitFrame
              /\ UNCHANGED pre_unresolved

(* main.py:62-68: the pre-flight listing *)
PreList ==
    /\ pc = "pre_list"
    /\ \E r1 \in Resp, r2 \in Resp :
          LET out == ListingOutcome(r1, r2)
              l   == OpenCopilotPRs(pr_state)
          IN  IF out # "ok" THEN Raise(out, << >>) /\ UNCHANGED listed
              ELSE /\ listed' = {l[i] : i \in 1..Len(l)}
                   /\ IF l = << >>
                      THEN Step("trigger", exc, << >>, << >>, 0, 0)
                      ELSE Step("wait_ready", exc, << >>, l, l[1], 0)
    /\ UNCHANGED << ctx, title, last_poll >>
    /\ UNCHANGED remoteVars
    /\ UNCHANGED metricsVars
    /\ cycleFrame

(* the result of wait_for_pr_ready at its two call sites: main.py:77-91, 131-134
   and main.py:212-219 *)
AfterReadyProceedsOnTimeout(ready, why) ==
    LET e == << Ev("ready", pr_number, why) >>
    IN  IF AUTO_MERGE_PRS THEN Goto("ensure_base", e)
        ELSE Raise("RuntimeError", e \o << Ev("left_open", pr_number, "manual") >>)
AfterReady(ready, why) ==
    LET e == << Ev("ready", pr_number, why) >>
    IN  IF ~ready THEN GiveUp(e)
        ELSE IF AUTO_MERGE_PRS THEN Goto("ensure_base", e)
        ELSE Raise("RuntimeError", e \o << Ev("left_open", pr_number, "manual") >>)

(* pr_manager.py:282-290, 298-309, 333-334: the loop test and the first read of a
   readiness poll *)
WaitReadyTitle ==
    /\ pc = "wait_ready"
    /\ IF BudgetSpent(elapsed, PR_READY_TIMEOUT_SECONDS)
       THEN /\ AfterReady(FALSE, "timeout")
            /\ pre_unresolved' = Unresolved(TRUE)
            /\ UNCHANGED title
            /\ last_poll' = NoPoll
       ELSE /\ UNCHANGED pre_unresolved
            /\ \/ /\ Sleep("wait_ready", SleepBackoff, PR_READY_TIMEOUT_SECONDS)     \* "net"
                  /\ UNCHANGED title
                  /\ last_poll' = PollFailed("net", 0)
               \/ \E s \in HttpErrorStatus :                                  \* "http"
                     /\ IF RetriesHTTPError(s)
                        THEN Sleep("wait_ready", SleepBackoff, PR_READY_TIMEOUT_SECONDS)
                        ELSE Raise("HTTPError", << >>)
                     /\ UNCHANGED title
                     /\ last_poll' = PollFailed("http", s)
               \/ \E t \in Titles :                                           \* "ok"
                     /\ Step("wait_ready2", exc, << >>, queue, pr_number, elapsed)
                     /\ title' = t
                     /\ last_poll' = NoPoll
    /\ UNCHANGED << ctx, listed >>
    /\ UNCHANGED remoteVars
    /\ UNCHANGED metricsVars
    /\ waitFrame

(* pr_manager.py:291-331: the second read of a readiness poll and its decision *)
WaitReadyReviewers ==
    /\ pc = "wait_ready2"
    /\ \/ /\ Sleep("wait_ready", SleepBackoff, PR_READY_TIMEOUT_SECONDS)             \* "net"
          /\ last_poll' = PollFailed("net", 0)
       \/ \E s \in HttpErrorStatus :                                          \* "http"
             /\ IF RetriesHTTPError(s)
                THEN Sleep("wait_ready", SleepBackoff, PR_READY_TIMEOUT_SECONDS)
                ELSE Raise("HTTPError", << >>)
             /\ last_poll' = PollFailed("http", s)
       \/ \E n \in 0..1 :                                                     \* "ok"
             /\ IF ReadyDecision(HasWip(title), n)
                THEN AfterReady(TRUE, "ready")
                ELSE Sleep("wait_ready", SleepPoll, PR_READY_TIMEOUT_SECONDS)
             /\ last_poll' = [NoPoll EXCEPT !.kind = "ready", !.t = title, !.n = n]
    /\ title' = << >>
    /\ pre_unresolved' = Unresolved(pc' = "raised" /\ exc' = "RuntimeError")
    /\ UNCHANGED << ctx, listed >>
    /\ UNCHANGED remoteVars
    /\ UNCHANGED metricsVars
    /\ waitFrame

ApplyRemote(o) ==
    /\ pr_base_ok' = IF o.updated THEN [pr_base_ok EXCEPT ![pr_number] = TRUE] ELSE pr_base_ok
    /\ pr_state' = IF (o.merged \/ o.closed) /\ pr_state[pr_number] = "open"
                   THEN [pr_state EXCEPT ![pr_number] = "closed"]
                   ELSE pr_state
    /\ UNCHANGED job_queued
    /\ touched' = IF metrics_followed /\ (o.merged \/ o.closed)
                  THEN touched \cup {pr_number} ELSE touched
    /\ UNCHANGED pr_numbers

localFrame == /\ UNCHANGED << ctx, listed, title >>
              /\ last_poll' = NoPoll

(* main.py:88-91 and main.py:219-223: ensure_pr_base_branch and what the caller does
   with its result *)
EnsureBase ==
    /\ pc = "ensure_base"
    /\ \E o \in EnsureOutcomes(pr_number, pr_base_ok[pr_number]) :
              /\ ApplyRemote(o)
              /\ IF o.raised THEN Raise(o.e, o.ev)
                 ELSE IF o.ret THEN Goto("mark_ready", o.ev)
                 ELSE GiveUp(o.ev)
    /\ localFrame
    /\ cycleFrame

(* main.py:94, 226 with pr_manager.py:171-224 mark_pr_ready_for_review: the GET of the
   pull request may raise, the GraphQL mutation's errors are caught, the result is
   not used *)
MarkReady ==
    /\ pc = "mark_ready"
    /\ \E r0 \in Resp :
          IF r0 # "ok" THEN Raise(ExcOf(r0), << >>) ELSE Goto("wait_checks", << >>)
    /\ localFrame
    /\ UNCHANGED remoteVars
    /\ UNCHANGED metricsVars
    /\ cycleFrame

(* pr_manager.py:383-439 wait_for_pr_checks, one pass of its loop, and the branch its
   callers take on the result (main.py:96-113, 229-243) *)
WaitChecks ==
    /\ pc = "wait_checks"
    /\ IF BudgetSpent(elapsed, PR_CHECK_TIMEOUT_SECONDS)
       THEN /\ Goto("close_failed", << Ev("checks", pr_number, "timeout") >>)
            /\ last_poll' = NoPoll
            /\ pre_unresolved' = Unresolved(TRUE)
       ELSE /\ UNCHANGED pre_unresolved
            /\ \/ /\ Sleep("wait_checks", SleepBackoff, PR_CHECK_TIMEOUT_SECONDS)    \* "net"
                  /\ last_poll' = PollFailed("net", 0)
               \/ \E s \in HttpErrorStatus :                                  \* "http"
                     /\ IF RetriesHTTPError(s)
                        THEN Sleep("wait_checks", SleepBackoff, PR_CHECK_TIMEOUT_SECONDS)
                        ELSE Raise("HTTPError", << >>)
                     /\ last_poll' = PollFailed("http", s)
               \/ \E m \in MergeableStates, cs \in CheckStatuses :            \* "ok"
                     LET d == CheckDecision(m, cs)
                     IN  /\ CASE d = "passed" ->
                                    Goto("merge", << Ev("checks", pr_number, "passed") >>)
                               [] d = "failed" ->
                                    Goto("close_failed", << Ev("checks", pr_number, "failed") >>)
                               [] OTHER -> Sleep("wait_checks", SleepPoll, PR_CHECK_TIMEOUT_SECONDS)
                         /\ last_poll' = [NoPoll EXCEPT !.kind = "checks", !.m = m, !.cs = cs]
    /\ UNCHANGED << ctx, listed, title >>
    /\ UNCHANGED remoteVars
    /\ UNCHANGED metricsVars
    /\ waitFrame

(* main.py:99-111 and main.py:233-241: merge_pull_request and the caller's branch *)
Merge ==
    /\ pc = "merge"
    /\ \E o \in MergeOutcomes(pr_number) :
              /\ (o.merged => pr_state[pr_number] = "open")
              /\ ApplyRemote(o)
              /\ IF o.raised THEN Raise(o.e, o.ev)
                 ELSE IF ctx = "pre"
                      THEN IF o.ret THEN Goto("pre_issue_merged", o.ev)
                           ELSE Raise("RuntimeError", o.ev)
                 ELSE Return(o.ev)
    /\ localFrame
    /\ cycleFrame

(* main.py:105-108: pre-flight closes the issue of a merged pull request *)
PreIssueMerged ==
    /\ pc = "pre_issue_merged"
    /\ \E iss \in IssueOutcomes(pr_number, "merged") :
          /\ ApplyRemote([NoEffect EXCEPT !.issue_closed = iss.closed])
          /\ IF iss.raised THEN Raise(ExcOf(iss.kind), iss.ev) ELSE NextExisting(iss.ev)
    /\ localFrame
    /\ cycleFrame

(* main.py:117-119 and main.py:248-253: close_pull_request after a False from
   wait_for_pr_checks; its result is not used *)
CloseFailed ==
    /\ pc = "close_failed"
    /\ \E cl \in ClosePROutcomes(pr_number, "failed_checks") :
          /\ ApplyRemote([NoEffect EXCEPT !.closed = cl.closed])
          /\ IF cl.raised THEN Raise("ConnectionError", cl.ev)
             ELSE IF ctx = "pre" THEN Goto("pre_issue_failed", cl.ev)
             ELSE Return(cl.ev)
    /\ localFrame
    /\ cycleFrame

(* main.py:122-130: pre-flight closes the issue of a pull request whose checks failed *)
PreIssueFailed ==
    /\ pc = "pre_issue_failed"
    /\ \E iss \in IssueOutcomes(pr_number, "failed_checks") :
          /\ ApplyRemote([NoEffect EXCEPT !.issue_closed = iss.closed])
          /\ IF iss.raised THEN Raise(ExcOf(iss.kind), iss.ev) ELSE NextExisting(iss.ev)
    /\ localFrame
    /\ cycleFrame

(* main.py:70, 136-137: the for loop takes the next listed pull request, or pre-flight
   returns True and the cycle goes on to the trigger *)
PreNext ==
    /\ pc = "pre_next"
    /\ IF Len(queue) > 1
       THEN StepL("wait_ready", exc, << >>, Tail(queue), queue[2], 0)
       ELSE StepL("trigger", exc, << >>, << >>, 0, 0)
    /\ localFrame
    /\ UNCHANGED remoteVars
    /\ UNCHANGED metricsVars
    /\ cycleFrame

(* main.py:169-170: the trigger returned None *)
TriggerFailedRetries(evs) == Step("trigger", exc, evs, queue, 0, 0)
TriggerFailed(evs) == Step("raised", "RuntimeError", evs, queue, 0, 0)

(* main.py:164-174 with copilot_trigger.py:41-156: None, the sentinel -1, the
   number of the pull request the agent opened, or the subprocess.TimeoutExpired of
   the authentication check, which no handler catches *)
Trigger ==
    /\ pc = "trigger"
    /\ ctx' = "own"
    /\ \E out \in {"fail", "raise", "pending", "id"} :
          CASE out = "fail" ->
                  /\ TriggerFailed(<< Ev("trigger", 0, "fail") >>)
                  /\ UNCHANGED remoteVars
            [] out = "raise" ->          \* copilot_trigger.py:59-64 timed out
                  /\ Step("raised", "TimeoutExpired", << Ev("trigger", 0, "raised") >>,
                          queue, 0, 0)
                  /\ UNCHANGED remoteVars
            [] out = "pending" ->
                  /\ Step("await_creation", exc, << Ev("trigger", 0, "pending") >>, queue, -1, 0)
                  /\ job_queued' = TRUE
                  /\ UNCHANGED << pr_state, pr_base_ok >>
            [] out = "id" ->
                  /\ \E n \in PRs : pr_state[n] = "absent"
                  /\ LET n == LowestAbsent(pr_state)
                     IN  /\ Step("created", exc, << Ev("trigger", n, "id") >>, queue, n, 0)
                         /\ pr_state' = [pr_state EXCEPT ![n] = "open"]
                         /\ \E b \in BOOLEAN : pr_base_ok' = [pr_base_ok EXCEPT ![n] = b]
                         /\ UNCHANGED job_queued
    /\ UNCHANGED << listed, title >>
    /\ last_poll' = NoPoll
    /\ UNCHANGED metricsVars
    /\ cycleFrame

(* main.py:181  while (time.time() - start_time) < max_wait: the loop test fails *)
CreationBudgetSpentAtOnce(waited) == TRUE
CreationBudgetSpent(waited) == waited >= MaxWaitCreation

(* main.py:178-196: the creation poll *)
AwaitCreation ==
    /\ pc = "await_creation"
    /\ IF CreationBudgetSpent(elapsed)
       THEN Raise("RuntimeError", << Ev("creation", 0, "timeout") >>)
       ELSE \E r1 \in Resp, r2 \in Resp :
               LET out == ListingOutcome(r1, r2)
                   l   == OpenCopilotPRs(pr_state)
               IN  IF out # "ok" THEN Raise(out, << >>)
                   ELSE IF l # << >>
                        THEN Step("created", exc, << Ev("creation", l[1], "found") >>, queue, l[1], 0)
                        ELSE Sleep("await_creation", SleepBackoff, MaxWaitCreation)
    /\ localFrame
    /\ UNCHANGED remoteVars
    /\ UNCHANGED metricsVars
    /\ cycleFrame

(* main.py:205 with metrics.py:26-29  metrics.record_pr_created(pr_number) *)
RecordPrCreated(n) == IF metrics_followed THEN pr_numbers \cup {n} ELSE pr_numbers

(* main.py:208, 254-258: if AUTO_MERGE_PRS ... else the pull request is left open *)
AfterCreatedAlwaysWaits(auto_merge) == Goto("wait_ready", << >>)
AfterCreated(auto_merge) ==
    IF auto_merge
    THEN Goto("wait_ready", << >>)
    ELSE Return(<< Ev("left_open", pr_number, "manual") >>)

(* main.py:198-208, 254-258: the pull request is known *)
Created ==
    /\ pc = "created"
    /\ AfterCreated(AUTO_MERGE_PRS)
    /\ localFrame
    /\ pr_numbers' = RecordPrCreated(pr_number)
    /\ UNCHANGED touched
    /\ UNCHANGED remoteVars
    /\ cycleFrame

----------------------------------------------------------------------------
(* The remote side *)

envFrame == /\ UNCHANGED << pc, ctx, queue, listed, pr_number, elapsed, title, last_poll,
                            exc, log, shutdown_requested, pre_unresolved >>
            /\ UNCHANGED loopVars
            /\ UNCHANGED configVars
            /\ UNCHANGED << guard, gw_call >>
            /\ UNCHANGED metricsVars

(* the agent opens the pull request of a queued job *)
AgentOpensPR ==
    /\ job_queued
    /\ \E n \in PRs : pr_state[n] = "absent"
    /\ LET n == LowestAbsent(pr_state)
       IN  /\ pr_state' = [pr_state EXCEPT ![n] = "open"]
           /\ \E b \in BOOLEAN : pr_base_ok' = [pr_base_ok EXCEPT ![n] = b]
    /\ job_queued' = FALSE
    /\ envFrame

(* somebody else closes (or merges) an open pull request while the program sleeps *)
SleepingAt == {"delay", "wait_ready", "wait_checks", "await_creation"}
ExternalClose ==
    /\ pc \in SleepingAt
    /\ \E p \in PRs :
          /\ pc # "delay" => p = pr_number
          /\ pr_state[p] = "open"
          /\ pr_state' = [pr_state EXCEPT ![p] = "closed"]
    /\ UNCHANGED << pr_base_ok, job_queued >>
    /\ envFrame

Next ==
    \/ LoopHead \/ CycleReturned \/ CycleRaised \/ Delay \/ signal_handler
    \/ PreList \/ WaitReadyTitle \/ WaitReadyReviewers \/ EnsureBase \/ MarkReady
    \/ WaitChecks \/ Merge \/ PreIssueMerged \/ CloseFailed \/ PreIssueFailed \/ PreNext
    \/ Trigger \/ AwaitCreation \/ Created
    \/ AgentOpensPR \/ ExternalClose

Spec == Init /\ [][Next]_vars

----------------------------------------------------------------------------
(* ensure_pr_base_branch run again and again on the same pull requests, as the
   pre-flight steps of successive cycles do (main.py:88): every run reads the base the
   remote has at that time *)

MaxGuardRuns == 3

CountOf(evs, op) == Cardinality({i \in 1..Len(evs) : evs[i].op = op})

InitGuard ==
    /\ pc = "ensure_base" /\ ctx = "pre"
    /\ cycle_index = 1 /\ consecutive_failures = 0 /\ successful_cycles = 0
    /\ shutdown_requested = FALSE /\ stop_reason = "none" /\ delay_left = 0
    /\ pr_numbers = {} /\ touched = {} /\ metrics_followed = FALSE
    /\ MAX_CYCLES = 0 /\ AUTO_MERGE_PRS = TRUE
    /\ PR_READY_TIMEOUT_SECONDS = PR_READY_TIMEOUT
    /\ PR_CHECK_TIMEOUT_SECONDS = PR_CHECK_TIMEOUT
    /\ pr_state = [p \in PRs |-> "open"]
    /\ pr_base_ok \in [PRs -> BOOLEAN]
    /\ job_queued = FALSE /\ pre_unresolved = {}
    /\ queue = << >> /\ listed = PRs /\ pr_number = 1
    /\ elapsed = 0 /\ title = << >> /\ last_poll = NoPoll /\ exc = "none" /\ log = << >>
    /\ guard = NoGuardRuns
    /\ gw_call = NoCall

GuardInvoke ==
    /\ guard.runs < MaxGuardRuns
    /\ \E p \in PRs :
         \E o \in EnsureOutcomes(p, pr_base_ok[p]) :
            LET was == guard.by[p]
                upd == InLog2(o.ev, "base_update", p, "ok")
                now == [runs     |-> was.runs + 1,
                        comments |-> was.comments + CountOf(o.ev, "comment"),
                        closes   |-> was.closes + CountOf(o.ev, "close"),
                        falses   |-> was.falses + (IF upd /\ ~o.raised /\ ~o.ret THEN 1 ELSE 0),
                        updated  |-> IF ~upd THEN was.updated
                                     ELSE IF o.raised THEN "raised" ELSE "returned"]
            IN  /\ pr_number' = p
                /\ log' = o.ev
                /\ exc' = IF o.raised THEN o.e ELSE "none"
                /\ pr_base_ok' = IF o.updated THEN [pr_base_ok EXCEPT ![p] = TRUE] ELSE pr_base_ok
                /\ pr_state' = IF o.closed THEN [pr_state EXCEPT ![p] = "closed"] ELSE pr_state
                /\ guard' = [runs |-> guard.runs + 1, by |-> [guard.by EXCEPT ![p] = now]]
    /\ UNCHANGED << pc, ctx, queue, listed, elapsed, title, last_poll, job_queued,
                    pre_unresolved, shutdown_requested >>
    /\ UNCHANGED loopVars
    /\ UNCHANGED configVars
    /\ UNCHANGED metricsVars
    /\ UNCHANGED gw_call

SpecGuard == InitGuard /\ [][GuardInvoke]_vars

----------------------------------------------------------------------------
(* The loop with the bookkeeping of its final summary: the pull request numbers that
   metrics.record_pr_created collects, and the pull requests the process merged or
   closed *)

InitSummary ==
    /\ pc = "loop_head" /\ ctx = "none"
    /\ cycle_index = 1 /\ consecutive_failures = 0 /\ successful_cycles = 0
    /\ shutdown_requested = FALSE /\ stop_reason = "none" /\ delay_left = 0
    /\ pr_numbers = {} /\ touched = {} /\ metrics_followed = TRUE
    /\ MAX_CYCLES \in MaxCyclesSettings /\ AUTO_MERGE_PRS \in BOOLEAN
    /\ PR_READY_TIMEOUT_SECONDS = PR_READY_TIMEOUT
    /\ PR_CHECK_TIMEOUT_SECONDS = PR_CHECK_TIMEOUT
    /\ \E S \in InitiallyOpen :
          pr_state = [p \in PRs |-> IF p \in S THEN "open" ELSE "absent"]
    /\ pr_base_ok = [p \in PRs |-> TRUE]
    /\ job_queued = FALSE /\ pre_unresolved = {}
    /\ queue = << >> /\ listed = {} /\ pr_number = 0
    /\ elapsed = 0 /\ title = << >> /\ last_poll = NoPoll /\ exc = "none" /\ log = << >>
    /\ guard = NoGuardRuns
    /\ gw_call = NoCall

SpecSummary == InitSummary /\ [][Next]_vars

----------------------------------------------------------------------------
(* The functions of the gateway called by themselves, on every argument up to a size *)

MaxRepoLen == 4
RepoChars == {"a", "b", "/"}
RepoStrings == UNION {[1..k -> RepoChars] : k \in 0..MaxRepoLen}

InitCalls ==
    /\ pc = "loop_head" /\ ctx = "none"
    /\ cycle_index = 1 /\ consecutive_failures = 0 /\ successful_cycles = 0
    /\ shutdown_requested = FALSE /\ stop_reason = "none" /\ delay_left = 0
    /\ pr_numbers = {} /\ touched = {} /\ metrics_followed = FALSE
    /\ MAX_CYCLES = 0 /\ AUTO_MERGE_PRS = TRUE
    /\ PR_READY_TIMEOUT_SECONDS = PR_READY_TIMEOUT
    /\ PR_CHECK_TIMEOUT_SECONDS = PR_CHECK_TIMEOUT
    /\ pr_state = [p \in PRs |-> "absent"]
    /\ pr_base_ok = [p \in PRs |-> TRUE]
    /\ job_queued = FALSE /\ pre_unresolved = {}
    /\ queue = << >> /\ listed = {} /\ pr_number = 0
    /\ elapsed = 0 /\ title = << >> /\ last_poll = NoPoll /\ exc = "none" /\ log = << >>
    /\ guard = NoGuardRuns
    /\ gw_call = NoCall

(* each function is called once, on a process that has called none before *)
Uncalled == gw_call = NoCall

callFrame ==
    /\ UNCHANGED << pc, ctx, queue, listed, pr_number, elapsed, title, last_poll, exc, log,
                    shutdown_requested, pre_unresolved, guard >>
    /\ UNCHANGED loopVars
    /\ UNCHANGED configVars
    /\ UNCHANGED metricsVars
    /\ UNCHANGED remoteVars

(* github_api.py:83-88 *)
split_owner_repo ==
    /\ Uncalled
    /\ \E repo \in RepoStrings :
          gw_call' = [fn |-> "split_owner_repo", arg |-> repo, out |-> SplitOwnerRepo(repo)]
    /\ callFrame

(* the listings tried: up to MaxListing pull requests, newest first *)
MaxListing == 2
Logins == {"copilot-swe-agent", "other-user"}
Refs == {<< "copilot", "/", "fix" >>, << "copilot", "-fix" >>, << "feature" >>,
         << "fix", "/", "copilot", "/" >>}
Listings ==
    UNION {{[i \in 1..k |-> [number |-> k + 1 - i, login |-> f[i][1], ref |-> f[i][2]]] :
               f \in [1..k -> Logins \X Refs]} : k \in 0..MaxListing}
Statuses == {200, 401, 403, 404, 500}

(* pr_manager.py:442-480 *)
get_open_copilot_prs ==
    /\ Uncalled
    /\ \E st \in Statuses :
          \E l \in (IF st = 200 THEN Listings ELSE {<< >>}) :
             gw_call' = [fn |-> "get_open_copilot_prs", arg |-> [status |-> st, all_prs |-> l],
                         out |-> GetOpenCopilotPrs(st, l)]
    /\ callFrame

(* github_api.py:91-148 *)
validate_repository_access ==
    /\ Uncalled
    /\ \E answered \in BOOLEAN :
          \E st \in (IF answered THEN Statuses ELSE {0}) :
             gw_call' = [fn |-> "validate_repository_access",
                         arg |-> [status |-> st, answered |-> answered],
                         out |-> ValidateRepositoryAccess(answered, st)]
    /\ callFrame

(* close_pull_request and close_issue called by themselves, with and without a
   comment, on an open and on a closed target *)

(* "None" stands for the default comment=None; `if comment:` is false for it and
   for the empty string *)
CloseComments == {"None", "", "checks failed"}
CommentGiven(comment) == comment \notin {"None", ""}

(* pr_manager.py:84-112 with its optional comment: without one the POST is skipped *)
ClosePullRequestMaybe(p, comment, r1, r2) ==
    IF CommentGiven(comment) THEN ClosePullRequest(p, comment, r1, r2)
    ELSE LET o == ClosePullRequest(p, comment, "ok", r2)
         IN  [o EXCEPT !.ev = SelectSeq(o.ev, LAMBDA e : e.op # "comment")]

(* issue_manager.py:87-115 close_issue(repository, issue_number, comment): r1 answers
   the comment POST, r2 the PATCH state=closed *)
CloseIssue(i, comment, r1, r2) ==
    LET call == << Ev("issue_close_call", i, comment) >>
        said == IF CommentGiven(comment) THEN << Ev("issue_comment", i, comment) >> ELSE << >>
    IN  IF CommentGiven(comment) /\ r1 = "net"
        THEN [raised |-> TRUE, ret |-> FALSE, closed |-> FALSE, ev |-> call]
        ELSE IF CommentGiven(comment) /\ r1 = "http"
        THEN [raised |-> FALSE, ret |-> FALSE, closed |-> FALSE, ev |-> call]
        ELSE IF r2 = "net"
        THEN [raised |-> TRUE, ret |-> FALSE, closed |-> FALSE, ev |-> call \o said]
        ELSE IF r2 = "http"
        THEN [raised |-> FALSE, ret |-> FALSE, closed |-> FALSE, ev |-> call \o said]
        ELSE [raised |-> FALSE, ret |-> TRUE, closed |-> TRUE,
              ev |-> call \o said \o << Ev("issue_close", i, comment) >>]

TargetStates == {"open", "closed"}

(* the target's state after the call: the PATCH is the only request that changes it *)
StateAfter(was, o) == IF o.closed THEN "closed" ELSE was

close_pull_request ==
    /\ Uncalled
    /\ \E p \in PRs, c \in CloseComments, r1 \in Resp, r2 \in Resp, was \in TargetStates :
          LET o == ClosePullRequestMaybe(p, c, r1, r2)
          IN  gw_call' = [fn |-> "close_pull_request",
                          arg |-> [n |-> p, comment |-> c, r1 |-> r1, r2 |-> r2, was |-> was],
                          out |-> [o EXCEPT !.closed = StateAfter(was, o)]]
    /\ callFrame

close_issue ==
    /\ Uncalled
    /\ \E i \in PRs, c \in CloseComments, r1 \in Resp, r2 \in Resp, was \in TargetStates :
          LET o == CloseIssue(i, c, r1, r2)
          IN  gw_call' = [fn |-> "close_issue",
                          arg |-> [n |-> i, comment |-> c, r1 |-> r1, r2 |-> r2, was |-> was],
                          out |-> [o EXCEPT !.closed = StateAfter(was, o)]]
    /\ callFrame

(* trigger_copilot_via_gh_cli called by itself, on every outcome of its three
   subprocesses and every output made of up to MaxWords of these words *)

MaxWords == 4
OutputWords ==
    {<< "J", "o", "b" >>, << "Q", "u", "e", "u", "e", "d" >>, << "p", "u", "l", "l", "/" >>,
     << "#" >>, << "7" >>, << "1", "2" >>, << " " >>}
Outputs ==
    UNION {{ConcatAll(ws) : ws \in [1..k -> OutputWords]} : k \in 0..MaxWords}

(* what `gh auth status` and `gh agent-task create` may do under subprocess.run
   with a timeout *)
AuthOutcomes  == {"ok", "nonzero", "environment variable", "timeout"}
AgentOutcomes == {"zero", "nonzero", "timeout", "not found", "error"}

(* copilot_trigger.py:41-156 *)
trigger_copilot_via_gh_cli ==
    /\ Uncalled
    /\ \E found \in BOOLEAN, auth \in AuthOutcomes, agent \in AgentOutcomes, output \in Outputs :
          /\ ~found => (auth = "ok" /\ agent = "zero" /\ output = << >>)
          /\ (found /\ auth # "ok") => (agent = "zero" /\ output = << >>)
          /\ (found /\ auth = "ok" /\ agent # "zero") => output = << >>
          /\ gw_call' = [fn |-> "trigger_copilot_via_gh_cli",
                         arg |-> [found |-> found, auth |-> auth, agent |-> agent,
                                  output |-> output],
                         out |-> TriggerCopilotViaGhCli(found, auth, agent, output)]
    /\ callFrame
NextCalls ==
    \/ split_owner_repo \/ get_open_copilot_prs \/ validate_repository_access
    \/ close_pull_request \/ close_issue \/ trigger_copilot_via_gh_cli

SpecCalls == InitCalls /\ [][NextCalls]_vars

----------------------------------------------------------------------------
(* One waiter run by itself on the cycle's own pull request, for every timeout its
   caller may pass, zero and negative ones included.  The thread is the only one, and
   every remote call returns: each pass of the waiter's loop gets done. *)

Timeouts(max) == (0 - 1)..max

InitWaiters ==
    /\ pc \in {"wait_ready", "wait_checks"} /\ ctx = "own"
    /\ cycle_index = 1 /\ consecutive_failures = 0 /\ successful_cycles = 0
    /\ shutdown_requested = FALSE /\ stop_reason = "none" /\ delay_left = 0
    /\ pr_numbers = {} /\ touched = {} /\ metrics_followed = FALSE
    /\ MAX_CYCLES = 0 /\ AUTO_MERGE_PRS = TRUE
    /\ PR_READY_TIMEOUT_SECONDS \in Timeouts(PR_READY_TIMEOUT)
    /\ PR_CHECK_TIMEOUT_SECONDS \in Timeouts(PR_CHECK_TIMEOUT)
    /\ pr_state = [p \in PRs |-> IF p = 1 THEN "open" ELSE "absent"]
    /\ pr_base_ok = [p \in PRs |-> TRUE]
    /\ job_queued = FALSE /\ pre_unresolved = {}
    /\ queue = << >> /\ listed = {} /\ pr_number = 1
    /\ elapsed = 0 /\ title = << >> /\ last_poll = NoPoll /\ exc = "none"
    /\ log = << Ev("trigger", 1, "id") >>
    /\ guard = NoGuardRuns
    /\ gw_call = NoCall

NextWaiters == WaitReadyTitle \/ WaitReadyReviewers \/ WaitChecks

SpecWaiters == InitWaiters /\ [][NextWaiters]_vars /\ WF_vars(NextWaiters)

----------------------------------------------------------------------------
(* Properties of the loop controller *)

InCycle == pc \notin {"loop_head", "delay", "stopped", "crashed"}
InLog(op, p, r) == \E i \in 1..Len(log) : log[i] = Ev(op, p, r)
Logged(op) == {i \in 1..Len(log) : log[i].op = op}
LastLogged(op, p, r) == log # << >> /\ log[Len(log)] = Ev(op, p, r)

(* C1: at the top of every iteration the stop conditions are tested in the order
   shutdown requested, then (maximum positive and cycle_index > maximum), then
   consecutive_failures >= MAX_CONSECUTIVE_FAILURES; the loop stops on the first one
   that holds and starts a cycle only when none holds.  A maximum of 0 never stops
   the loop; a positive maximum n lets at most n cycles execute. *)
C1_StopChecksInOrder ==
    /\ [][ (pc = "loop_head" /\ pc' # pc) =>
             /\ shutdown_requested => (pc' = "stopped" /\ stop_reason' = "shutdown")
             /\ (~shutdown_requested /\ MAX_CYCLES > 0 /\ cycle_index > MAX_CYCLES)
                   => (pc' = "stopped" /\ stop_reason' = "max_cycles")
             /\ (~shutdown_requested /\ ~(MAX_CYCLES > 0 /\ cycle_index > MAX_CYCLES)
                   /\ consecutive_failures >= MAX_CONSECUTIVE_FAILURES)
                   => (pc' = "stopped" /\ stop_reason' = "failures")
             /\ (~shutdown_requested /\ ~(MAX_CYCLES > 0 /\ cycle_index > MAX_CYCLES)
                   /\ consecutive_failures < MAX_CONSECUTIVE_FAILURES)
                   => (pc' = "pre_list" /\ stop_reason' = "none") ]_vars
    /\ [](MAX_CYCLES = 0 => stop_reason # "max_cycles")
    /\ [](MAX_CYCLES > 0 => /\ cycle_index <= MAX_CYCLES + 1
                            /\ InCycle => cycle_index <= MAX_CYCLES)

(* the maximum and the failure limit are both reached, and the maximum is reported *)
C1_Witness ==
    /\ pc = "stopped" /\ stop_reason = "max_cycles"
    /\ cycle_index = MAX_CYCLES + 1
    /\ consecutive_failures >= MAX_CONSECUTIVE_FAILURES

(* C2: a cycle that raises adds 1 to consecutive_failures and leaves
   successful_cycles alone; a cycle that returns without raising sets
   consecutive_failures to 0 and adds 1 to successful_cycles, whatever happened
   inside it (merged, left open, closed after failed checks, merge failed). *)
C2_FailureCounter ==
    [][ /\ (pc = "raised" /\ pc' # pc) =>
             /\ consecutive_failures' = consecutive_failures + 1
             /\ successful_cycles' = successful_cycles
        /\ (pc = "returned" /\ pc' # pc) =>
             /\ consecutive_failures' = 0
             /\ successful_cycles' = successful_cycles + 1 ]_vars

(* a cycle whose merge was refused returns after an earlier cycle failed *)
C2_Witness ==
    /\ pc = "returned" /\ consecutive_failures = 1
    /\ InLog("merge_put", pr_number, "refused")

(* C3: no exception of a cycle leaves the loop: it is caught, counted as one
   failure, cycle_index advances by 1 and the loop goes on to the next iteration. *)
C3_ExceptionsCaught ==
    /\ [](pc # "crashed")
    /\ [][ (pc = "raised" /\ pc' # pc) =>
             /\ consecutive_failures' = consecutive_failures + 1
             /\ cycle_index' = cycle_index + 1
             /\ pc' \in {"delay", "loop_head"} ]_vars

(* a connection error of a gateway call has reached the loop *)
C3_Witness == pc = "raised" /\ exc = "ConnectionError" /\ cycle_index = 1

----------------------------------------------------------------------------
(* Properties of the pre-flight step *)

(* C4: when the trigger is invoked, no pull request of the pre-flight listing is
   still open, also when a remote close or merge call failed in that cycle. *)
C4_ListedResolvedAtTrigger ==
    ctx = "own" => \A p \in listed : pr_state[p] # "open"

(* C5: a listed pull request that pre-flight could not resolve - a wait on it timed
   out, or auto-merge is off and it was left open - makes the cycle fail without the
   trigger being invoked. *)
C5_UnresolvedFailsCycle ==
    (\E p \in pre_unresolved : pr_state[p] = "open") => (ctx # "own" /\ pc # "returned")

----------------------------------------------------------------------------
(* Properties of the merge and close decisions *)

(* C6: after validation reported "passed" the merge operation is invoked exactly
   once (and sends at most one merge request); when it succeeds the cycle returns
   and counts as a success, consecutive_failures being 0 afterwards. *)
C6_PassedMergesOnce ==
    /\ [](InLog("checks", pr_number, "passed") =>
             IF pc = "merge" THEN Logged("merge_call") = {}
             ELSE /\ Cardinality(Logged("merge_call")) = 1
                  /\ Cardinality(Logged("merge_put")) <= 1)
    /\ []((ctx = "own" /\ InLog("merge_put", pr_number, "merged")) => pc = "returned")
    /\ [][ (pc = "returned" /\ InLog("merge_put", pr_number, "merged") /\ pc' # pc) =>
             /\ consecutive_failures' = 0
             /\ successful_cycles' = successful_cycles + 1 ]_vars

(* the cycle's own pull request was merged *)
C6_Witness ==
    /\ ctx = "own" /\ pc = "returned"
    /\ InLog("checks", pr_number, "passed")
    /\ LastLogged("merge_put", pr_number, "merged")
    /\ pr_state[pr_number] = "closed"

(* C7: after validation reported "failed" the pull request is never merged; the
   close operation is invoked with the failed-checks comment and the linked issue is
   looked up to be closed, for the cycle's own pull request as in pre-flight. *)
C7_FailedClosesBoth ==
    (pc \in {"returned", "pre_next"} /\ InLog("checks", pr_number, "failed")) =>
        /\ Logged("merge_call") = {}
        /\ InLog("close_call", pr_number, "failed_checks")
        /\ Logged("issue_lookup") # {}

(* C8: after validation timed out the pull request is left as it is: no merge, no
   comment, no close. *)
C8_TimeoutLeavesOpen ==
    InLog("checks", pr_number, "timeout") =>
        /\ Logged("merge_call") = {}
        /\ Logged("close_call") = {} /\ Logged("comment") = {} /\ Logged("close") = {}

----------------------------------------------------------------------------
(* Properties of the waiters *)

(* the title carries the marker "[WIP]" in some letter case *)
CarriesWipMarker(t) ==
    \E i \in 1..Len(t) :
        /\ i + 4 <= Len(t)
        /\ t[i] = "["
        /\ t[i + 1] \in {"W", "w"} /\ t[i + 2] \in {"I", "i"} /\ t[i + 3] \in {"P", "p"}
        /\ t[i + 4] = "]"

(* C9: wait_for_pr_ready reports ready only for a poll whose title carries no
   "[WIP]" in any letter case and whose list of requested reviewers is not empty,
   and it does report ready on the first successful poll that finds both. *)
C9_ReadyIffNoWipAndReviewers ==
    last_poll.kind = "ready" =>
        /\ InLog("ready", pr_number, "ready")
              <=> (~CarriesWipMarker(last_poll.t) /\ last_poll.n > 0)
        /\ ~InLog("ready", pr_number, "ready") => pc = "wait_ready"

(* a mixed-case marker keeps a pull request with a reviewer waiting *)
C9_Witness ==
    /\ last_poll.kind = "ready" /\ last_poll.t = TitleWip /\ last_poll.n = 1
    /\ pc = "wait_ready"

(* C10: a validation poll decides on the mergeability classification alone:
   "clean" is passed, "dirty" and "unstable" are failed, anything else (also
   absent) polls again; at the timeout the result is not "passed". *)
C10_CheckDecisionTable ==
    /\ last_poll.kind = "checks" =>
          /\ last_poll.m = "clean" =>
                (pc = "merge" /\ LastLogged("checks", pr_number, "passed"))
          /\ last_poll.m \in {"dirty", "unstable"} =>
                (pc = "close_failed" /\ LastLogged("checks", pr_number, "failed"))
          /\ last_poll.m \notin {"clean", "dirty", "unstable"} =>
                (pc = "wait_checks" /\ Logged("checks") = {})
    /\ InLog("checks", pr_number, "timeout") =>
          (~InLog("checks", pr_number, "passed") /\ Logged("merge_call") = {})

(* "blocked" with failing check runs polls again *)
C10_Witness ==
    /\ last_poll.kind = "checks" /\ last_poll.m = "blocked"
    /\ last_poll.cs = "some_failed" /\ pc = "wait_checks" /\ elapsed = SleepPoll

----------------------------------------------------------------------------
(* Properties of the cycle's abort paths *)

OnlyLogged(ops) == \A i \in 1..Len(log) : log[i].op \in ops

(* C11: when the readiness wait on the cycle's own pull request times out, the cycle
   returns without an exception and has done nothing to the pull request (no base
   update, merge, close or comment); the pull request is left as it is and
   consecutive_failures is not incremented. *)
C11_ReadyTimeoutLeavesOpen ==
    /\ []((ctx = "own" /\ InLog("ready", pr_number, "timeout")) =>
             /\ pc = "returned" /\ exc = "none"
             /\ OnlyLogged({"trigger", "creation", "ready"}))
    /\ [][ (ctx = "own" /\ pc = "wait_ready" /\ pc' = "returned") =>
             (pr_state' = pr_state /\ pr_base_ok' = pr_base_ok) ]_vars
    /\ [][ (pc = "returned" /\ InLog("ready", pr_number, "timeout") /\ pc' # pc) =>
             consecutive_failures' = 0 ]_vars

(* scenario B: pending trigger, the creation poll finds the pull request, the
   readiness budget runs out and the pull request is still open *)
C11_Witness ==
    /\ ctx = "own" /\ pc = "returned"
    /\ log = << Ev("trigger", 0, "pending"), Ev("creation", pr_number, "found"),
                Ev("ready", pr_number, "timeout") >>
    /\ pr_state[pr_number] = "open"

(* the guard's result as its callers show it: True goes on to mark_pr_ready_for_review,
   False ends the cycle (a return after the trigger, "existing work unresolved" in
   pre-flight), an exception of a call propagates *)
GuardWentOn == pc \in {"mark_ready", "wait_checks"} \/ (pc = "raised" /\ exc # "RuntimeError")
GuardSaidFalse == IF ctx = "own" THEN pc = "returned" ELSE pc = "raised" /\ exc = "RuntimeError"
GuardRaised == pc = "raised" /\ exc = "ConnectionError"
NoGuardCleanup == \A i \in 1..Len(log) : log[i].res # "wrong_base"

(* C12: ensure_pr_base_branch returns True without any remote mutation when the
   fetched base is the expected one; otherwise it asks for the base to be updated:
   when the update succeeds it invokes the close with the explanatory comment, goes
   on to the linked issue and returns False (never True); when the update fails it
   returns False (never True) and closes or comments on nothing. *)
C12_BaseGuardContract ==
    /\ LastLogged("base", pr_number, "correct") =>
          (GuardWentOn /\ Logged("base_update") = {} /\ NoGuardCleanup)
    /\ InLog("base_update", pr_number, "failed") => (GuardSaidFalse /\ NoGuardCleanup)
    /\ InLog("base_update", pr_number, "error") => (GuardRaised /\ NoGuardCleanup)
    /\ InLog("base_update", pr_number, "ok") =>
          /\ InLog("close_call", pr_number, "wrong_base")
          /\ pr_base_ok[pr_number]
          /\ GuardSaidFalse \/ GuardRaised
          /\ GuardSaidFalse => Logged("issue_lookup") # {}
          /\ InLog("close", pr_number, "wrong_base") =>
                (InLog("comment", pr_number, "wrong_base") /\ pr_state[pr_number] = "closed")

(* the base was wrong, the update went through, pull request and issue are closed *)
C12_Witness ==
    /\ InLog("base_update", pr_number, "ok") /\ InLog("close", pr_number, "wrong_base")
    /\ InLog("issue_close", pr_number, "wrong_base") /\ GuardSaidFalse
    /\ pr_state[pr_number] = "closed"

(* C14: when the guard returns False for the cycle's own pull request (the base was
   wrong; in the full case the update went through and pull request and issue were
   closed with their comments), the cycle ends there: no validation wait, no merge,
   no exception, and the loop does not count a failure. *)
C14_GuardFalseAborts ==
    /\ []((ctx = "own" /\ Logged("base_update") # {}) =>
             /\ pc = "returned" \/ GuardRaised
             /\ Logged("checks") = {} /\ Logged("merge_call") = {} /\ Logged("merge_put") = {}
             /\ (InLog("close", pr_number, "wrong_base")
                   /\ InLog("issue_close", pr_number, "wrong_base"))
                   => (pc = "returned" /\ exc = "none"))
    /\ [][ (pc = "returned" /\ Logged("base_update") # {} /\ pc' # pc) =>
             consecutive_failures' = 0 ]_vars

(* scenario C: wrong base, update done, pull request and issue closed, cycle returned
   after an earlier cycle had failed *)
C14_Witness ==
    /\ ctx = "own" /\ pc = "returned" /\ consecutive_failures = 1
    /\ InLog("base_update", pr_number, "ok")
    /\ InLog("close", pr_number, "wrong_base")
    /\ InLog("issue_close", pr_number, "wrong_base")
    /\ pr_state[pr_number] = "closed"

----------------------------------------------------------------------------
(* Properties of the waiters' exits *)

Waiting == {"wait_ready", "wait_ready2", "wait_checks"}
WaiterStep == pc \in Waiting /\ (pc' # pc \/ elapsed' # elapsed)
CycleOver == {"returned", "raised"}

(* C15: a poll that is answered while the pull request is closed on the remote ends
   the wait at once with a not-ready result, and the cycle is over without a base
   update, merge, close or comment. *)
C15_ClosedEndsWait ==
    [][ (WaiterStep /\ pr_number \in PRs /\ pr_state[pr_number] = "closed"
           /\ last_poll'.kind \in {"ready", "checks"}) =>
          (pc' \in CycleOver /\ log' = log) ]_vars

(* C16: a poll answered with a non-retriable client error (404) makes the waiter
   return a not-ready result without an exception. *)
C16_NotFoundEndsWait ==
    (last_poll.kind = "http" /\ last_poll.status = 404) =>
        (exc \in {"none", "RuntimeError"} /\ pc \notin Waiting)

(* C17: a poll that fails with a connection error, a timeout or a 5xx answer neither
   returns nor raises: the waiter sleeps the backoff and polls again. *)
C17_TransientRetried ==
    (last_poll.kind = "net" \/ (last_poll.kind = "http" /\ last_poll.status >= 500)) =>
        (pc \in {"wait_ready", "wait_checks"} /\ exc = "none")

(* C18: with the shutdown flag set before the first poll of a waiter completes, the
   waiter returns a not-ready / not-passed result without an error and without
   sleeping, and nothing is changed on the remote. *)
C18_ShutdownBeforeFirstPoll ==
    [][ (WaiterStep /\ shutdown_requested /\ elapsed = 0) =>
          /\ pc' \in CycleOver /\ exc' \in {"none", "RuntimeError"}
          /\ pr_state' = pr_state /\ pr_base_ok' = pr_base_ok ]_vars

(* C19: a shutdown requested while a waiter polls or sleeps is seen at the waiter's
   next suspension point: the waiter does not start another poll or sleep. *)
C19_ShutdownSeenInWaiter ==
    [][ (WaiterStep /\ shutdown_requested /\ pc \in {"wait_ready", "wait_checks"}) =>
          pc' \notin Waiting ]_vars

----------------------------------------------------------------------------
(* Properties of the inter-cycle delay *)

(* C20: the delay is slept one increment at a time with the shutdown flag tested
   before every increment; once shutdown is requested the delay sleeps no further
   increment, and the loop stops without starting another cycle. *)
C20_DelayHonoursShutdown ==
    /\ [][ (pc = "delay" /\ (pc' # pc \/ delay_left' # delay_left)) =>
             /\ shutdown_requested => (pc' = "loop_head" /\ delay_left' = 0)
             /\ pc' = "delay" => delay_left' = delay_left - 1
             /\ pc' \in {"delay", "loop_head"} ]_vars
    /\ [][ (pc = "loop_head" /\ shutdown_requested /\ pc' # pc) => pc' = "stopped" ]_vars
    /\ [](pc = "delay" => delay_left \in 0..DELAY_BETWEEN_CYCLES_SECONDS)

(* shutdown was requested while increments of the delay were left *)
C20_Witness == pc = "delay" /\ shutdown_requested /\ delay_left > 0

----------------------------------------------------------------------------
(* Properties of the trigger and of the creation wait *)

(* C21: a cycle invokes the agent trigger at most once: once it has been invoked the
   cycle never comes back to it.  When the trigger reports failure the cycle raises
   (a cycle-level exception) and has polled, updated, merged and closed nothing. *)
C21_TriggerOnce ==
    /\ Cardinality(Logged("trigger")) <= 1
    /\ ctx = "own" => (pc # "trigger" /\ Cardinality(Logged("trigger")) = 1)
    /\ InLog("trigger", 0, "fail") =>
          /\ pc = "raised" /\ exc = "RuntimeError"
          /\ log = << Ev("trigger", 0, "fail") >>
          /\ pr_number = 0

(* the trigger failed in the second cycle, after pre-flight had merged a pull request *)
C21_Witness ==
    /\ InLog("trigger", 0, "fail") /\ pc = "raised" /\ cycle_index = 2
    /\ \E p \in listed : pr_state[p] = "closed"

(* C22: the creation wait is entered only after the trigger returned the pending
   sentinel; it polls the open agent pull requests every 10 s; it ends with the first
   poll that finds one, and the cycle goes on with that pull request; it gives up only
   when its budget has elapsed, and then the cycle raises without a readiness wait. *)
C22_CreationWait ==
    /\ [](pc = "await_creation" =>
             /\ log = << Ev("trigger", 0, "pending") >>
             /\ pr_number = -1 /\ ctx = "own" /\ elapsed \in 0..MaxWaitCreation)
    /\ [](Logged("creation") # {} => InLog("trigger", 0, "pending"))
    /\ [](InLog("creation", 0, "timeout") =>
             /\ pc = "raised" /\ exc = "RuntimeError"
             /\ log = << Ev("trigger", 0, "pending"), Ev("creation", 0, "timeout") >>)
    /\ [][ (pc = "await_creation" /\ log' # log) =>
             \/ /\ elapsed >= MaxWaitCreation
                /\ log' = log \o << Ev("creation", 0, "timeout") >>
                /\ pc' = "raised"
             \/ /\ elapsed < MaxWaitCreation
                /\ OpenCopilotPRs(pr_state) # << >>
                /\ pr_number' = OpenCopilotPRs(pr_state)[1]
                /\ log' = log \o << Ev("creation", pr_number', "found") >>
                /\ pc' = "created" ]_vars
    /\ [][ (pc = "await_creation" /\ pc' = "await_creation" /\ elapsed' # elapsed) =>
             /\ OpenCopilotPRs(pr_state) = << >>
             /\ elapsed < MaxWaitCreation
             /\ elapsed' = Min(elapsed + SleepBackoff, MaxWaitCreation) ]_vars
    /\ [][ (pc = "created" /\ AUTO_MERGE_PRS /\ pc' # pc) =>
             (pc' = "wait_ready" /\ pr_number' = pr_number) ]_vars

(* the agent opened no pull request within the budget *)
C22_Witness ==
    /\ pc = "raised" /\ job_queued
    /\ log = << Ev("trigger", 0, "pending"), Ev("creation", 0, "timeout") >>

----------------------------------------------------------------------------
(* Properties of the validation waiter's secondary query *)

(* C24: the per-check counts fetched by get_pr_check_status never change what a
   validation poll decides: whatever the query returned - no check runs, failed runs,
   all passed - or when it raised, the poll passes exactly for "clean", fails exactly
   for "dirty" / "unstable" and otherwise polls again, and no exception leaves the
   waiter. *)
C24_CountsNeverDecide ==
    last_poll.kind = "checks" =>
        /\ pc \in {"merge", "close_failed", "wait_checks"} /\ exc = "none"
        /\ pc = "merge" <=> last_poll.m = "clean"
        /\ pc = "close_failed" <=> last_poll.m \in {"dirty", "unstable"}
        /\ \A i \in Logged("checks") :
              log[i].res = (IF last_poll.m = "clean" THEN "passed" ELSE "failed")

(* failed check runs are counted, the classification is clean: passed *)
C24_Witness ==
    /\ last_poll.kind = "checks" /\ last_poll.m = "clean" /\ last_poll.cs = "some_failed"
    /\ pc = "merge" /\ LastLogged("checks", pr_number, "passed")

----------------------------------------------------------------------------
(* Properties of the waiters' time budget *)

WaitIsOver == pc \notin {"wait_ready", "wait_ready2", "wait_checks"}
BudgetOf(at) == IF at = "wait_checks" THEN PR_CHECK_TIMEOUT_SECONDS ELSE PR_READY_TIMEOUT_SECONDS

(* C25: a waiter starts a poll only while the time elapsed since it began is below
   its timeout; every pass of its loop ends the wait or sleeps at least the 10 s
   backoff, so every wait terminates; with a timeout of 0 or less no poll is made and
   the result is not-ready / not-passed. *)
C25_WaitersTerminate ==
    /\ <>WaitIsOver
    /\ [][ (pc \in {"wait_ready", "wait_checks"} /\ elapsed >= BudgetOf(pc)) =>
             /\ pc' \in {"returned", "close_failed"}
             /\ last_poll' = NoPoll
             /\ log' = log \o << Ev(IF pc = "wait_checks" THEN "checks" ELSE "ready",
                                     pr_number, "timeout") >> ]_vars
    /\ [][ (pc' \in {"wait_ready", "wait_checks"}) =>
             elapsed' >= Min(elapsed + SleepBackoff, BudgetOf(pc')) ]_vars
    /\ []((PR_READY_TIMEOUT_SECONDS <= 0
              /\ pc \in {"wait_ready", "wait_ready2", "ensure_base", "returned"}) =>
             /\ pc \in {"wait_ready", "returned"} /\ last_poll = NoPoll /\ elapsed = 0
             /\ ~InLog("ready", pr_number, "ready"))
    /\ []((PR_CHECK_TIMEOUT_SECONDS <= 0
              /\ pc \in {"wait_checks", "merge", "close_failed"}) =>
             /\ pc \in {"wait_checks", "close_failed"} /\ last_poll = NoPoll /\ elapsed = 0
             /\ ~InLog("checks", pr_number, "passed"))

(* a wait with timeout 0 has returned without a poll *)
C25_Witness ==
    /\ PR_READY_TIMEOUT_SECONDS = 0 /\ pc = "returned"
    /\ LastLogged("ready", pr_number, "timeout") /\ last_poll = NoPoll

----------------------------------------------------------------------------
(* Properties of the final summary *)

(* main.py:338-340: the three counts the summary prints *)
Attempted == cycle_index - 1
Failed == (cycle_index - 1) - successful_cycles

(* C26: when the loop has stopped, whatever the reason, the summary's counts satisfy
   attempted = successes + failures, and the pull request numbers it prints include
   every pull request the process touched, the existing ones that pre-flight merged
   or closed too. *)
C26_SummaryComplete ==
    pc = "stopped" =>
        /\ Attempted = successful_cycles + Failed
        /\ successful_cycles >= 0 /\ Failed >= 0
        /\ touched \subseteq pr_numbers

----------------------------------------------------------------------------
(* Properties of the gateway functions *)

(* C27: for a string with at least one "/", split_owner_repo returns the part before
   the first "/" and the part after it: owner, "/" and name put together give the
   string back, and owner holds no "/".  For a string without "/" it raises
   ValueError and returns nothing. *)
C27_SplitAtFirstSlash ==
    gw_call.fn = "split_owner_repo" =>
        IF \E i \in 1..Len(gw_call.arg) : gw_call.arg[i] = "/"
        THEN /\ gw_call.out.raised = "none"
             /\ gw_call.out.owner \o << "/" >> \o gw_call.out.name = gw_call.arg
             /\ \A i \in 1..Len(gw_call.out.owner) : gw_call.out.owner[i] # "/"
        ELSE /\ gw_call.out.raised = "ValueError"
             /\ gw_call.out.owner = << >> /\ gw_call.out.name = << >>

(* a string with two "/": the name keeps the second one *)
C27_Witness ==
    /\ gw_call.fn = "split_owner_repo" /\ gw_call.arg = << "a", "/", "b", "/" >>
    /\ gw_call.out.owner = << "a" >> /\ gw_call.out.name = << "b", "/" >>

(* what a step of the cycle (the executor, its guards and its waiters) works on *)
cycleVars == << pc, ctx, queue, listed, pr_number, elapsed, title, last_poll, exc, log,
                pre_unresolved >>

(* C28: the loop state has a single writer.  No step of a cycle (executor, guard or
   waiter) changes cycle_index, consecutive_failures or the shutdown flag: the two
   counters change only in the Loop Controller's step that follows the end of a cycle
   (returned or raised), and the flag changes only by being set in a step that leaves
   the cycle, the counters and the repository as they were (the signal handler), so
   the cycle's steps at most read it. *)
C28_SingleWriter ==
    [][ /\ (cycle_index' # cycle_index \/ consecutive_failures' # consecutive_failures) =>
              /\ pc \in {"returned", "raised"}
              /\ pc' \in {"delay", "loop_head"}
              /\ cycle_index' = cycle_index + 1
        /\ shutdown_requested' # shutdown_requested =>
              /\ shutdown_requested'
              /\ UNCHANGED cycleVars
              /\ UNCHANGED << cycle_index, consecutive_failures >>
              /\ UNCHANGED remoteVars
        /\ (InCycle /\ pc \notin {"returned", "raised"}) =>
              UNCHANGED << cycle_index, consecutive_failures >>
      ]_vars

(* a waiter has polled and slept in a later cycle, after a failed one, while shutdown
   was requested *)
C28_Witness ==
    /\ pc = "wait_checks" /\ elapsed > 0 /\ last_poll # NoPoll
    /\ shutdown_requested
    /\ cycle_index > 1 /\ consecutive_failures > 0

(* the places of a listing's pull requests that match the agent's pattern *)
Matching(all_prs) ==
    {i \in 1..Len(all_prs) :
        \/ all_prs[i].login = "copilot-swe-agent"
        \/ /\ Len(all_prs[i].ref) >= 2
           /\ all_prs[i].ref[1] = "copilot" /\ all_prs[i].ref[2] = "/"}

(* C29: get_open_copilot_prs returns exactly the pull requests of the listing whose
   author is copilot-swe-agent or whose head branch starts with "copilot/", each once
   and in the listing's order (newest first): nothing else is returned and no
   matching one is dropped. *)
C29_ExactlyTheAgentsPRs ==
    (gw_call.fn = "get_open_copilot_prs" /\ gw_call.arg.status = 200) =>
        LET all_prs == gw_call.arg.all_prs
            prs     == gw_call.out.prs
        IN  /\ gw_call.out.raised = "none"
            /\ Len(prs) = Cardinality(Matching(all_prs))
            /\ \A i \in Matching(all_prs) : \E j \in 1..Len(prs) : prs[j] = all_prs[i]
            /\ \A j \in 1..Len(prs) : \E i \in Matching(all_prs) : prs[j] = all_prs[i]
            /\ \A j \in 1..Len(prs), k \in 1..Len(prs) :
                  j < k => prs[j].number > prs[k].number

(* another user's pull request on a copilot/ branch is kept, the agent's pull request
   comes first, and both are returned *)
C29_Witness ==
    /\ gw_call.fn = "get_open_copilot_prs" /\ Len(gw_call.arg.all_prs) = 2
    /\ Len(gw_call.out.prs) = 2
    /\ gw_call.out.prs[1].ref = << "feature" >>
    /\ gw_call.out.prs[2].login = "other-user"

(* C30: a 404, 401 or 403 answer to the repository request makes
   validate_repository_access and get_open_copilot_prs raise a RuntimeError that names
   the cause; validate_repository_access returns normally only for a successful
   answer. *)
C30_FailFastNamesCause ==
    LET cause == [st \in {404, 401, 403} |->
                     CASE st = 404 -> "not found or not accessible"
                       [] st = 401 -> "Authentication failed"
                       [] st = 403 -> "Access forbidden"]
    IN  /\ gw_call.fn = "validate_repository_access" =>
              /\ (gw_call.arg.answered /\ gw_call.arg.status \in {404, 401, 403}) =>
                    /\ gw_call.out.raised = "RuntimeError"
                    /\ gw_call.out.msg = cause[gw_call.arg.status]
              /\ gw_call.out.raised = "none" <=>
                    (gw_call.arg.answered /\ gw_call.arg.status < 400)
        /\ (gw_call.fn = "get_open_copilot_prs" /\ gw_call.arg.status \in {404, 401, 403}) =>
              /\ gw_call.out.raised = "RuntimeError"
              /\ gw_call.out.msg = cause[gw_call.arg.status]

----------------------------------------------------------------------------
(* Properties of a cycle with auto-merge disabled *)

ManualUntouched ==
    (ctx = "own" /\ ~AUTO_MERGE_PRS /\ pr_number \in PRs) =>
        /\ pc \in {"created", "returned"}
        /\ OnlyLogged({"trigger", "creation", "left_open"})
        /\ pr_state[pr_number] = "open"

(* C23 as stated: with auto-merge disabled a cycle that obtained a pull request runs
   no validation wait and never merges, closes or comments on it; the pull request is
   left open and the cycle is counted neither as a success nor as a failure. *)
C23_ManualNeitherSuccessNorFailure ==
    /\ []ManualUntouched
    /\ [][ (pc = "returned" /\ ~AUTO_MERGE_PRS /\ pc' # pc) =>
             /\ successful_cycles' = successful_cycles
             /\ consecutive_failures' = consecutive_failures ]_vars

(* C23 amended: with auto-merge disabled a cycle that obtained a pull request runs no
   readiness wait and no validation wait and never merges, closes or comments on it;
   the pull request is left open, the cycle returns without an exception and is
   counted as a successful cycle: successful_cycles grows by 1 and
   consecutive_failures is reset to 0. *)
C23_ManualCountsAsSuccess ==
    /\ []ManualUntouched
    /\ [][ (pc = "created" /\ ~AUTO_MERGE_PRS /\ pc' # pc) =>
             /\ pc' = "returned" /\ exc' = "none"
             /\ pr_state' = pr_state /\ pr_base_ok' = pr_base_ok ]_vars
    /\ [][ (pc = "returned" /\ ~AUTO_MERGE_PRS /\ pc' # pc) =>
             /\ successful_cycles' = successful_cycles + 1
             /\ consecutive_failures' = 0 ]_vars

(* the pull request of the sentinel path is left open for manual review *)
C23_Witness ==
    /\ ctx = "own" /\ pc = "returned" /\ ~AUTO_MERGE_PRS
    /\ log = << Ev("trigger", 0, "pending"), Ev("creation", pr_number, "found"),
                Ev("left_open", pr_number, "manual") >>
    /\ pr_state[pr_number] = "open"

----------------------------------------------------------------------------
(* Properties of repeated runs of the base-branch guard *)

(* C13: however often ensure_pr_base_branch runs on a pull request, also again after
   a failure between the comment and the close, the pull request gets the
   explanatory comment at most once and is closed at most once, and False is
   returned for the mismatch exactly once: by the run that updated the base, and
   by no later run. *)
C13_GuardActsOnce ==
    \A p \in PRs :
        /\ guard.by[p].comments <= 1
        /\ guard.by[p].closes <= 1
        /\ guard.by[p].falses <= 1
        /\ guard.by[p].updated = "returned" => guard.by[p].falses = 1
        /\ guard.by[p].updated = "no" =>
              (guard.by[p].falses = 0 /\ guard.by[p].comments = 0 /\ guard.by[p].closes = 0)

(* the close failed after the comment, and the guard has run again since *)
C13_Witness ==
    \E p \in PRs :
        /\ guard.by[p].comments = 1 /\ guard.by[p].closes = 0
        /\ guard.by[p].falses = 1 /\ pr_state[p] = "open"
        /\ guard.by[p].runs >= 2 /\ pr_number = p /\ InLog("base", p, "correct")

----------------------------------------------------------------------------
(* Properties of the merge step *)

(* the places of the pass's log where this happened to pull request p *)
At(op, p, r) == {i \in 1..Len(log) : log[i] = Ev(op, p, r)}
Sent(p) == {i \in 1..Len(log) : log[i].op = "merge_put" /\ log[i].pr = p}

(* C31: merge_pull_request is called on a pull request only with auto-merge enabled
   and after, earlier in the same pass and in this order, the readiness wait reported
   ready, the base-branch guard returned True and the validation wait reported passed
   for that pull request; it is never called on a pull request the pass has closed,
   and the merge request is not sent once the pre-merge fetch has reported
   mergeable = false. *)
C31_MergeOnlyAfterAllGates ==
    \A i \in 1..Len(log) :
        log[i].op = "merge_call" =>
            LET p == log[i].pr
            IN  /\ AUTO_MERGE_PRS
                /\ \E j \in At("ready", p, "ready"), k \in At("base", p, "correct"),
                      l \in At("checks", p, "passed") : j < k /\ k < l /\ l < i
                /\ \A j \in 1..i : ~(log[j].op = "close" /\ log[j].pr = p)
                /\ \A j \in 1..i : ~(log[j].op = "base_update" /\ log[j].pr = p)
                /\ At("merge_skip", p, "unmergeable") # {} => Sent(p) = {}

(* pre-flight has merged an existing pull request after all three gates *)
C31_Witness ==
    /\ ctx = "pre" /\ pc = "pre_issue_merged"
    /\ At("merge_put", pr_number, "merged") # {}
    /\ At("merge_call", pr_number, "call") # {}

----------------------------------------------------------------------------
(* Properties of a requested shutdown *)

(* main.py:292-329: the steps of the loop controller *)
ControllerStep == LoopHead \/ CycleReturned \/ CycleRaised \/ Delay

(* C32: the shutdown flag is never cleared once set.  After it is set no cycle is
   started, the cycle in flight (if any) is the last one, the delay after it is
   skipped and a delay in progress sleeps no further increment; the controller is
   never blocked on the way, so that, the cycle in flight terminating, the loop goes
   from the end of the cycle to the head of the loop and from there to STOPPED with
   the reason shutdown. *)
C32_ShutdownStopsTheLoop ==
    /\ [][ shutdown_requested => shutdown_requested' ]_vars
    /\ [][ (shutdown_requested /\ pc' # pc) =>
             /\ pc' # "pre_list"
             /\ pc \in {"returned", "raised"} => (pc' = "loop_head" /\ delay_left' = 0)
             /\ pc = "delay" => (pc' = "loop_head" /\ delay_left' = 0)
             /\ pc = "loop_head" => (pc' = "stopped" /\ stop_reason' = "shutdown") ]_vars
    /\ [][ (shutdown_requested /\ pc = "delay") => delay_left' \in {delay_left, 0} ]_vars
    /\ [][ (shutdown_requested /\ cycle_index' # cycle_index) => pc' = "loop_head" ]_vars
    /\ []((shutdown_requested /\ pc \in {"loop_head", "returned", "raised", "delay"}) =>
             ENABLED ControllerStep)
    /\ [](pc = "stopped" => ~ENABLED ControllerStep)

(* shutdown was requested during the first cycle of an unlimited run with a delay
   configured: the loop has stopped right after that cycle *)
C32_Witness ==
    /\ pc = "stopped" /\ stop_reason = "shutdown"
    /\ MAX_CYCLES = 0 /\ cycle_index = 2 /\ delay_left = 0

----------------------------------------------------------------------------
(* Properties of the loop counters *)

Max0(n) == IF n > 0 THEN n ELSE 0

(* C33: cycle_index is at least 1 and grows by exactly 1 when an executed cycle has
   ended, and at no other step; consecutive_failures stays between 0 and
   max(MAX_CONSECUTIVE_FAILURES, 0); a cycle that returned adds one success and
   resets consecutive_failures, a cycle that raised adds one failed cycle and one
   consecutive failure, so that successes + failed cycles = cycle_index - 1 and
   consecutive_failures never exceeds the number of failed cycles. *)
C33_CounterInvariants ==
    /\ [](/\ cycle_index >= 1
          /\ 0 <= consecutive_failures
          /\ consecutive_failures <= Max0(MAX_CONSECUTIVE_FAILURES)
          /\ successful_cycles >= 0 /\ Failed >= 0
          /\ successful_cycles + Failed = cycle_index - 1
          /\ consecutive_failures <= Failed)
    /\ [][ IF pc \in {"returned", "raised"} /\ pc' # pc
           THEN /\ cycle_index' = cycle_index + 1
                /\ pc = "returned" =>
                      /\ successful_cycles' = successful_cycles + 1 /\ Failed' = Failed
                      /\ consecutive_failures' = 0
                /\ pc = "raised" =>
                      /\ successful_cycles' = successful_cycles /\ Failed' = Failed + 1
                      /\ consecutive_failures' = consecutive_failures + 1
           ELSE UNCHANGED << cycle_index, consecutive_failures, successful_cycles >> ]_vars

(* every cycle has raised and the limit of consecutive failures has stopped the loop *)
C33_Witness ==
    /\ pc = "stopped" /\ stop_reason = "failures"
    /\ consecutive_failures = MAX_CONSECUTIVE_FAILURES
    /\ cycle_index = MAX_CONSECUTIVE_FAILURES + 1 /\ successful_cycles = 0

----------------------------------------------------------------------------
(* Properties of pre-flight *)

(* the callee results that end pre-flight with False: main.py:80-82, 90-92, 109-111 *)
PreFlightFalse ==
    \/ InLog("ready", pr_number, "timeout")
    \/ (\E r \in {"failed", "ok"} : InLog("base_update", pr_number, r)) /\ pc # "ensure_base"
    \/ InLog("merge_skip", pr_number, "unmergeable")
    \/ InLog("merge_put", pr_number, "refused")

(* the existing pull requests are taken in the listing's order, and one that ends
   pre-flight makes the cycle raise with the later ones untouched *)
C34_OrderAndFailure ==
    ctx = "pre" =>
        /\ queue # << >> =>
              /\ pr_number = queue[1]
              /\ \A i \in 1..Len(queue), j \in 1..Len(queue) : i < j => queue[i] > queue[j]
              /\ \A i \in 1..Len(queue) : queue[i] \in listed
              /\ \A i \in 2..Len(queue) : pr_state[queue[i]] = "open"
        /\ PreFlightFalse => pc = "raised"
        /\ (pc = "raised" /\ exc = "RuntimeError" /\ AUTO_MERGE_PRS) => PreFlightFalse
        /\ \A i \in 1..Len(log) : log[i].pr = pr_number /\ log[i].op # "trigger"

(* a pull request whose checks failed has been closed, and so has the linked issue
   that was found, when pre-flight goes on to the next one *)
C34_FailedIsClosed ==
    (ctx = "pre" /\ pc = "pre_next" /\ InLog("checks", pr_number, "failed")) =>
        /\ pr_state[pr_number] = "closed"
        /\ InLog("issue_lookup", pr_number, "found") =>
              InLog("issue_close", pr_number, "failed_checks")

(* C34: pre-flight handles the existing pull requests one after another in listing
   order; the first one whose readiness wait fails, whose base-branch guard returns
   False or whose merge call fails ends pre-flight with failure (the cycle raises, no
   trigger, the later listed ones untouched); one whose checks fail is closed
   together with its linked issue and pre-flight continues with the next one. *)
C34_PreFlightOneByOne == C34_OrderAndFailure /\ C34_FailedIsClosed

----------------------------------------------------------------------------
(* Properties of the creation poll *)

(* C35: the pull request adopted by the creation poll after a pending trigger is
   never one that was already open when the pre-flight of the same cycle listed the
   repository. *)
C35_AdoptedIsNew ==
    (ctx = "own" /\ InLog("trigger", 0, "pending") /\ InLog("creation", pr_number, "found")) =>
        pr_number \notin listed

----------------------------------------------------------------------------
(* wait_for_pr_ready polling a pull request that the agent, or anybody else, edits
   meanwhile: the remote holds one title and one list of requested reviewers, and
   each of the two GETs of a poll reads what the remote holds when it is answered *)

RemoteOf(t, n) == [wip |-> HasWip(t), n |-> n]

(* the remote pull request, and what it has held since the first read of the poll
   that began at `stamp` seconds of waiting *)
RemotePR(t, n, stamp, seen) ==
    [fn |-> "wait_for_pr_ready", title |-> t, reviewers |-> n, stamp |-> stamp, seen |-> seen]

InitReads ==
    /\ pc = "wait_ready" /\ ctx = "own"
    /\ cycle_index = 1 /\ consecutive_failures = 0 /\ successful_cycles = 0
    /\ shutdown_requested = FALSE /\ stop_reason = "none" /\ delay_left = 0
    /\ pr_numbers = {} /\ touched = {} /\ metrics_followed = FALSE
    /\ MAX_CYCLES = 0 /\ AUTO_MERGE_PRS = TRUE
    /\ PR_READY_TIMEOUT_SECONDS = PR_READY_TIMEOUT
    /\ PR_CHECK_TIMEOUT_SECONDS = PR_CHECK_TIMEOUT
    /\ pr_state = [p \in PRs |-> IF p = 1 THEN "open" ELSE "absent"]
    /\ pr_base_ok = [p \in PRs |-> TRUE]
    /\ job_queued = FALSE /\ pre_unresolved = {}
    /\ queue = << >> /\ listed = {} /\ pr_number = 1
    /\ elapsed = 0 /\ title = << >> /\ last_poll = NoPoll /\ exc = "none"
    /\ log = << Ev("trigger", 1, "id") >>
    /\ guard = NoGuardRuns
    /\ \E t \in Titles, n \in 0..1 : gw_call = RemotePR(t, n, 0 - 1, {})

(* pr_manager.py:285-290: GET /pulls/{n} is answered with the title of that moment *)
read_title ==
    /\ WaitReadyTitle
    /\ pc' = "wait_ready2" => title' = gw_call.title

(* pr_manager.py:292-296, 311-320: GET /pulls/{n}/requested_reviewers is answered
   with the reviewers of that moment *)
read_reviewers ==
    /\ WaitReadyReviewers
    /\ last_poll'.kind = "ready" => last_poll'.n = gw_call.reviewers

(* the agent, or anybody else, edits the title or the requested reviewers; between
   the two reads of a poll the remote remembers what it held before and after *)
edit_pull_request ==
    /\ pc \in {"wait_ready", "wait_ready2"}
    /\ \E t \in Titles, n \in 0..1 :
          /\ << t, n >> # << gw_call.title, gw_call.reviewers >>
          /\ gw_call' =
               IF pc = "wait_ready2"
               THEN RemotePR(t, n, elapsed,
                             (IF gw_call.stamp = elapsed THEN gw_call.seen ELSE {})
                                \cup {RemoteOf(gw_call.title, gw_call.reviewers),
                                      RemoteOf(t, n)})
               ELSE RemotePR(t, n, gw_call.stamp, gw_call.seen)
    /\ UNCHANGED << pc, ctx, queue, listed, pr_number, elapsed, title, last_poll,
                    exc, log, shutdown_requested, pre_unresolved, guard >>
    /\ UNCHANGED loopVars
    /\ UNCHANGED configVars
    /\ UNCHANGED metricsVars
    /\ UNCHANGED remoteVars

NextReads == read_title \/ read_reviewers \/ edit_pull_request

SpecReads == InitReads /\ [][NextReads]_vars

(* what the pull request has held at the instants of the poll in progress, from its
   first read up to now *)
HeldDuringPoll ==
    (IF gw_call.stamp = elapsed THEN gw_call.seen ELSE {})
       \cup {RemoteOf(gw_call.title, gw_call.reviewers)}

(* the poll in progress ends with this step, reporting ready *)
ReportsReady ==
    /\ pc = "wait_ready2"
    /\ last_poll'.kind = "ready"
    /\ pc' = "ensure_base"

(* each poll judges what its own two reads return: the title of the first read is
   dropped when the poll is over, and the next poll reads it anew *)
C36_NothingCarriedOver ==
    [][/\ (pc = "wait_ready" /\ pc' = "wait_ready2") => title' = gw_call.title
       /\ (pc = "wait_ready2" /\ pc' # "wait_ready2") => title' = << >>
       /\ (pc = "wait_ready2" /\ last_poll'.kind = "ready")
             => (last_poll'.t = title /\ last_poll'.n = gw_call.reviewers)]_vars

C36_ReadyAtOneInstant ==
    [][ReportsReady => \E s \in HeldDuringPoll : ~s.wip /\ s.n > 0]_vars

(* C36: with the pull request edited while wait_for_pr_ready polls it, a poll
   reports ready only if at one instant between its two reads the pull request
   had no work-in-progress marker and at least one requested reviewer; and no
   poll judges what an earlier poll read. *)
C36_ReadyIsASnapshot == C36_ReadyAtOneInstant /\ C36_NothingCarriedOver

(* the call at hand; its events are the requests that were answered with success *)
Closing == gw_call.fn \in {"close_pull_request", "close_issue"}
PostOp  == IF gw_call.fn = "close_issue" THEN "issue_comment" ELSE "comment"
PatchOp == IF gw_call.fn = "close_issue" THEN "issue_close" ELSE "close"
HttpErrorMet ==
    \/ CommentGiven(gw_call.arg.comment) /\ gw_call.arg.r1 = "http"
    \/ /\ CommentGiven(gw_call.arg.comment) => gw_call.arg.r1 = "ok"
       /\ gw_call.arg.r2 = "http"

(* C37: close_pull_request and close_issue post the comment, when one is given,
   before the close request and never after it; a comment refused with an HTTP
   error keeps the close request from being sent and leaves the target as it was;
   the result is True exactly when the close request succeeded, and an HTTP error
   of either request gives False, not an exception. *)
C37_CommentThenClose ==
    Closing =>
        LET done == {gw_call.out.ev[i].op : i \in 2..Len(gw_call.out.ev)}
            arg  == gw_call.arg
            out  == gw_call.out
        IN  /\ done \subseteq {PostOp, PatchOp}
            /\ PatchOp \in done =>
                  /\ gw_call.out.ev[Len(gw_call.out.ev)].op = PatchOp
                  /\ Cardinality({i \in 2..Len(out.ev) : out.ev[i].op = PatchOp}) = 1
                  /\ CommentGiven(arg.comment) =>
                        (Len(out.ev) = 3 /\ out.ev[2].op = PostOp)
            /\ PostOp \in done => CommentGiven(arg.comment)
            /\ (CommentGiven(arg.comment) /\ arg.r1 = "http") =>
                  /\ done = {}
                  /\ out.closed = arg.was
            /\ out.ret <=> (PatchOp \in done /\ arg.r2 = "ok")
            /\ out.ret => (~out.raised /\ out.closed = "closed")
            /\ HttpErrorMet => (~out.ret /\ ~out.raised)
            /\ ~out.ret => out.closed = arg.was

(* an open pull request whose closing comment is refused stays open, and the call
   returns False *)
C37_Witness ==
    /\ gw_call.fn = "close_pull_request"
    /\ gw_call.arg.comment = "checks failed" /\ gw_call.arg.r1 = "http"
    /\ gw_call.arg.was = "open" /\ gw_call.out.closed = "open"
    /\ ~gw_call.out.ret /\ ~gw_call.out.raised

(* the call at hand is one of trigger_copilot_via_gh_cli *)
Triggering == gw_call.fn = "trigger_copilot_via_gh_cli"
Mentions(word, output) == Contains(word, Lower(output))
JobQueued(output) ==
    Mentions(<< "j", "o", "b" >>, output) /\ Mentions(<< "q", "u", "e", "u", "e", "d" >>, output)
CommandRan == gw_call.arg.found /\ gw_call.arg.auth = "ok" /\ gw_call.arg.agent = "zero"

(* what the function makes of the output of an agent-task command that ran and
   exited with zero, and of an agent-task command that failed *)
C38_OutputParsed ==
    (Triggering /\ gw_call.arg.found /\ gw_call.arg.auth = "ok") =>
        LET output == gw_call.arg.output
            out    == gw_call.out
            pull   == ReSearch(<< "p", "u", "l", "l", "/" >>, output)
            hash   == ReSearch(<< "#" >>, output)
        IN  /\ out.raised = "none"
            /\ gw_call.arg.agent # "zero" => out.is_none
            /\ (CommandRan /\ JobQueued(output)) => out = TriggerInt(0 - 1)
            /\ (CommandRan /\ ~JobQueued(output)) =>
                  /\ pull.found => out = TriggerInt(pull.n)
                  /\ (~pull.found /\ hash.found) => out = TriggerInt(hash.n)
                  /\ (~pull.found /\ ~hash.found) => out.is_none
                  /\ ~out.is_none => out.n >= 0

(* every call ends with one of the three results, and a CLI that is missing, not
   authenticated or too slow gives None *)
C38_ThreeResults ==
    Triggering =>
        /\ gw_call.out.raised = "none"
        /\ gw_call.out.is_none \/ gw_call.out.n = 0 - 1 \/ gw_call.out.n >= 0
        /\ ~CommandRan => gw_call.out.is_none

(* C38: trigger_copilot_via_gh_cli ends with exactly one of three results and raises
   nothing: None when the CLI is missing or not authenticated, exits non-zero, times
   out or prints nothing it recognises; -1 whenever the output mentions both "job"
   and "queued", a pull request reference in it or not; otherwise the number after
   the first "pull/", else after the first "#"; such a number is never negative. *)
C38_NoneSentinelOrNumber == C38_ThreeResults /\ C38_OutputParsed

----------------------------------------------------------------------------
(* retry_on_failure(func, max_retries, delay), github_api.py:36-46 (the same text at
   improvement.py:104-116), followed attempt by attempt *)

MaxRetries == 4
MaxRetryDelay == 2
FuncOutcomes == {"result", "None", "RequestException", "ValueError"}

RECURSIVE Pow2(_)
Pow2(n) == IF n <= 0 THEN 1 ELSE 2 * Pow2(n - 1)

(* github_api.py:44  wait_time = delay * (2 ** attempt) *)
WaitTime(delay, attempt) == delay * Pow2(attempt)

(* the call in progress: `attempt` is the loop variable, `calls` what func has
   answered so far, `slept` the arguments of time.sleep so far *)
RetryCall(m, d) ==
    [fn |-> "retry_on_failure", max_retries |-> m, delay |-> d, at |-> "for",
     attempt |-> 0, calls |-> << >>, slept |-> << >>, out |-> "none"]

InitRetry ==
    /\ pc = "loop_head" /\ ctx = "none"
    /\ cycle_index = 1 /\ consecutive_failures = 0 /\ successful_cycles = 0
    /\ shutdown_requested = FALSE /\ stop_reason = "none" /\ delay_left = 0
    /\ pr_numbers = {} /\ touched = {} /\ metrics_followed = FALSE
    /\ MAX_CYCLES = 0 /\ AUTO_MERGE_PRS = TRUE
    /\ PR_READY_TIMEOUT_SECONDS = PR_READY_TIMEOUT
    /\ PR_CHECK_TIMEOUT_SECONDS = PR_CHECK_TIMEOUT
    /\ pr_state = [p \in PRs |-> "absent"]
    /\ pr_base_ok = [p \in PRs |-> TRUE]
    /\ job_queued = FALSE /\ pre_unresolved = {}
    /\ queue = << >> /\ listed = {} /\ pr_number = 0
    /\ elapsed = 0 /\ title = << >> /\ last_poll = NoPoll /\ exc = "none" /\ log = << >>
    /\ guard = NoGuardRuns
    /\ \E m \in (0 - 1)..MaxRetries, d \in 0..MaxRetryDelay : gw_call = RetryCall(m, d)

(* github_api.py:38-43: one pass of the for loop up to the sleep; an exception that
   is no requests.RequestException leaves at once *)
retry_attempt ==
    /\ gw_call.at = "for" /\ gw_call.attempt < gw_call.max_retries
    /\ \E r \in FuncOutcomes :
          LET called == [gw_call EXCEPT !.calls = Append(@, r)]
          IN  gw_call' =
                IF r \in {"result", "None"}
                THEN [called EXCEPT !.at = "returned", !.out = r]
                ELSE IF r # "RequestException" \/ gw_call.attempt = gw_call.max_retries - 1
                THEN [called EXCEPT !.at = "raised", !.out = r]
                ELSE [called EXCEPT !.at = "sleep"]
    /\ callFrame

(* github_api.py:44-46 *)
retry_sleep ==
    /\ gw_call.at = "sleep"
    /\ gw_call' = [gw_call EXCEPT !.slept = Append(@, WaitTime(gw_call.delay, gw_call.attempt)),
                                  !.attempt = @ + 1,
                                  !.at = "for"]
    /\ callFrame

(* github_api.py:38: range(max_retries) is used up, the function body ends and the
   call returns None *)
retry_falls_through ==
    /\ gw_call.at = "for" /\ gw_call.attempt >= gw_call.max_retries
    /\ gw_call' = [gw_call EXCEPT !.at = "returned", !.out = "fell through"]
    /\ callFrame

NextRetry == retry_attempt \/ retry_sleep \/ retry_falls_through

SpecRetry == InitRetry /\ [][NextRetry]_vars

(* the attempts that failed with a request error, and whether the last one did *)
RequestFailures ==
    Cardinality({k \in 1..Len(gw_call.calls) : gw_call.calls[k] = "RequestException"})
Succeeded(k) == gw_call.calls[k] \in {"result", "None"}

(* func is called at most max_retries times, never again after a success, and the
   k-th failed attempt is followed by a sleep of delay * 2^k, the last one by none *)
C39_AttemptsAndBackoff ==
    LET n == Len(gw_call.calls)
    IN  /\ n <= Max0(gw_call.max_retries)
        /\ \A k \in 1..n : (Succeeded(k) \/ gw_call.calls[k] = "ValueError") => k = n
        /\ gw_call.slept = [k \in 1..Len(gw_call.slept) |-> gw_call.delay * Pow2(k - 1)]
        /\ Len(gw_call.slept) =
              IF gw_call.at = "for" THEN n
              ELSE IF gw_call.at = "sleep" THEN n - 1
              ELSE IF n = 0 THEN 0
              ELSE n - 1
        /\ (gw_call.at = "raised" /\ gw_call.out = "RequestException") =>
              /\ RequestFailures = gw_call.max_retries
              /\ Len(gw_call.slept) = gw_call.max_retries - 1
        /\ (gw_call.at = "returned" /\ n > 0) => (Succeeded(n) /\ gw_call.out = gw_call.calls[n])

(* a call that is over has returned what a successful call of func returned, or has
   raised an error *)
C39_ResultOrError ==
    gw_call.at = "returned" => (gw_call.calls # << >> /\ Succeeded(Len(gw_call.calls)))

(* C39: retry_on_failure calls func at most max_retries times, returns the result
   of the first call that succeeds without calling again, sleeps delay * 2^k after
   the k-th failed attempt (k = 0, 1, ...), re-raises the last error after
   max_retries request failures without sleeping, and never returns without a
   successful result of func or a raised error. *)
C39_RetryWithBackoff == C39_AttemptsAndBackoff /\ C39_ResultOrError

----------------------------------------------------------------------------
(* The guard's result against its docstring *)

(* the step is a whole call of ensure_pr_base_branch *)
GuardStep == pc = "ensure_base" /\ pc' # "ensure_base"
(* what the caller does with the result: True goes on to mark_pr_ready_for_review;
   False returns from the cycle after the trigger and fails pre-flight before it *)
ReturnedTrue  == pc' = "mark_ready"
ReturnedFalse ==
    IF ctx = "own" THEN pc' = "returned" ELSE pc' = "raised" /\ exc' = "RuntimeError"

(* C40: ensure_pr_base_branch returns True if the base is already the expected one
   or was successfully updated to it, and returns False only when the update
   failed, as its docstring says. *)
C40_TrueUnlessUpdateFailed ==
    [][GuardStep =>
         /\ InLog2(log', "base", pr_number, "correct") => ReturnedTrue
         /\ (InLog2(log', "base_update", pr_number, "ok") /\ (ReturnedTrue \/ ReturnedFalse))
               => ReturnedTrue
         /\ ReturnedFalse => InLog2(log', "base_update", pr_number, "failed")]_vars

====
